---------------------------- MODULE Spec2Model ----------------------------
(***************************************************************************)
(* Classification-and-routing pipeline of the government feedback system.  *)
(*                                                                         *)
(*   src/ai/logic.py            detect_language, injection_detector,       *)
(*                              get_embedding, search_vector_db,           *)
(*                              analyze_message_with_gemini,               *)
(*                              process_message                            *)
(*   src/core_support/logic.py  precheck, message_router                   *)
(*   src/ai/views.py            MessagePrecheckView.post                   *)
(*                                                                         *)
(* Text is a sequence of Unicode code points, so that lower-casing, the    *)
(* substring test and the script ranges are computed as Python computes    *)
(* them.  Floats (scores, confidences) are counted in hundredths.          *)
(***************************************************************************)
EXTENDS Integers, Sequences, FiniteSets, TLC

(***************************************************************************)
(* Bounds of the model.                                                    *)
(***************************************************************************)
\* Invocations (of process_message, precheck, message_router, the view)
\* in one behaviour.
MaxRuns == 2
\* MessageContent rows of the message whose text ranges over the corpus.
MaxFragments == 2
\* sessions another actor closes while the invocations run
MaxCloses == 1
\* runs of the index_departments command
MaxIndexRuns == 2
\* processes calling AuditLog.create_log, entries they create in all, and
\* ticks of the clock
MaxCallers == 2
MaxLogs == 3
MaxClock == 2
\* fragments a chat types before it ends a message
MaxTyped == 2

(***************************************************************************)
(* Program constants.                                                      *)
(***************************************************************************)
\* output_dimensionality of the embedding, and the length of the zero vector
VectorDim == 768
\* limit= of query_points
TopK == 3
\* retries in get_embedding
Retries == 5
\* seconds of back-off per attempt number
BackoffUnit == 20
\* retries of index_departments around get_embedding
IndexRetries == 3

(***************************************************************************)
(* Text: str.lower, str.strip, the `in` substring test.                    *)
(***************************************************************************)
\* str.lower() of one character, on the characters the corpus uses: ASCII
\* A-Z, Cyrillic U+0410-U+042F (+32) and U+0400-U+040F (+80).
lower(c) ==
    IF c >= 65 /\ c <= 90 THEN c + 32
    ELSE IF c >= 1040 /\ c <= 1071 THEN c + 32
    ELSE IF c >= 1024 /\ c <= 1039 THEN c + 80
    ELSE c

Lower(s) == [i \in DOMAIN s |-> lower(s[i])]

\* pat in s
Contains(s, pat) ==
    \E i \in 0..(Len(s) - Len(pat)) : SubSeq(s, i + 1, i + Len(pat)) = pat

\* characters str.strip() removes
IsSpace(c) == c \in {9, 10, 11, 12, 13, 28, 29, 30, 31, 32, 133, 160}

RECURSIVE LStrip(_)
LStrip(s) == IF s # <<>> /\ IsSpace(Head(s)) THEN LStrip(Tail(s)) ELSE s

RECURSIVE RStrip(_)
RStrip(s) ==
    IF s # <<>> /\ IsSpace(s[Len(s)]) THEN RStrip(SubSeq(s, 1, Len(s) - 1)) ELSE s

strip(s) == RStrip(LStrip(s))

\* "ignore previous instructions", "system prompt", "delete all"
suspicious_patterns ==
    << <<105, 103, 110, 111, 114, 101, 32, 112, 114, 101, 118, 105, 111, 117,
         115, 32, 105, 110, 115, 116, 114, 117, 99, 116, 105, 111, 110, 115>>,
       <<115, 121, 115, 116, 101, 109, 32, 112, 114, 111, 109, 112, 116>>,
       <<100, 101, 108, 101, 116, 101, 32, 97, 108, 108>> >>

\* injection_detector comparing the text as written, not lower-cased
injection_detector_CaseSensitive(text) ==
    \E k \in DOMAIN suspicious_patterns : Contains(text, suspicious_patterns[k])

injection_detector(text) ==
    \E k \in DOMAIN suspicious_patterns :
        Contains(Lower(text), Lower(suspicious_patterns[k]))

\* 'a' <= char.lower() <= 'z'
has_latin(text) == \E i \in DOMAIN text : lower(text[i]) >= 97 /\ lower(text[i]) <= 122

\* elif 'Ѐ' <= char <= 'ӿ'
has_cyrillic(text) ==
    \E i \in DOMAIN text :
        /\ ~(lower(text[i]) >= 97 /\ lower(text[i]) <= 122)
        /\ text[i] >= 1024 /\ text[i] <= 1279

\* detect_language falling back to 'uz' when it finds no script
detect_language_DefaultUz(text) == IF has_cyrillic(text) THEN "ru" ELSE "uz"

\* 'uz', 'ru' or None
detect_language(text) ==
    IF has_latin(text) /\ ~has_cyrillic(text) THEN "uz"
    ELSE IF has_cyrillic(text) THEN "ru"
    ELSE "None"

\* The loop over message.contents.all() and the strip that follows it.
RECURSIVE JoinText(_)
JoinText(cs) ==
    IF cs = <<>> THEN <<>>
    ELSE IF Head(cs).content_type = "text" /\ Head(cs).text # <<>>
         THEN Head(cs).text \o <<32>> \o JoinText(Tail(cs))
         ELSE JoinText(Tail(cs))

ExtractText(cs) == strip(JoinText(cs))


(***************************************************************************)
(* The store: departments, sessions, messages and their contents.          *)
(***************************************************************************)
\* SQL NULL of a foreign key or of an AIResult id (BigAutoField ids start at 1)
NoDept == 0

\* Department rows (departments.models.Department); 2 is inactive.  The model
\* class has these columns and no others: there is no name_en.
DepartmentFields ==
    {"id", "name_uz", "name_ru", "description_uz", "description_ru",
     "keywords_uz", "keywords_ru", "created_at", "updated_at", "is_active",
     "is_deleted", "deleted_at"}

\* (a NULL text column reads as "": at every use NULL and "" are both falsy)
Department ==
    [d \in {1, 2} |->
        [id |-> d,
         name_uz |-> IF d = 1 THEN "Suv" ELSE "Gaz",
         name_ru |-> IF d = 1 THEN "Voda" ELSE "",
         description_uz |-> "...",
         description_ru |-> "",
         keywords_uz |-> IF d = 1 THEN "quvur" ELSE "",
         keywords_ru |-> "",
         is_active |-> d = 1,
         is_deleted |-> FALSE]]

\* department ids a caller or the reasoner may name: the rows and a stale id
DeptArgs == DOMAIN Department \cup {9}

SessionIds == {"s1", "s2"}

\* Message rows: message_uuid -> session_uuid (Message.session)
Message == [m \in {"m1", "m2", "m3"} |-> IF m = "m3" THEN "s2" ELSE "s1"]

\* message uuids a caller may pass: the rows and an unknown uuid
MessageArgs == DOMAIN Message \cup {"mX"}

\* session uuids a caller may pass: the rows and an unknown uuid
SessionArgs == SessionIds \cup {"sX"}

\* MessageContent rows
Txt(s) == [content_type |-> "text", text |-> s]
Img(s) == [content_type |-> "image", text |-> s]

\* "suv chiqib ketyapti"
TextUz == <<115, 117, 118, 32, 99, 104, 105, 113, 105, 98, 32, 107, 101, 116,
            121, 97, 112, 116, 105>>
\* "Сув оқмоқда"
TextRu == <<1057, 1091, 1074, 32, 1086, 1179, 1084, 1086, 1179, 1076, 1072>>
\* "1234 567"
TextDigits == <<49, 50, 51, 52, 32, 53, 54, 55>>

\* The pool the text corpus is built from: fragments whose space-join gives
\* flagged phrases in mixed case ("Delete" + "ALL", "System Prompt", "IGNORE
\* previous INSTRUCTIONS"), Latin, Cyrillic, digits, a Latin letter outside
\* a-z, blank text and a non-text content.
ContentPool ==
    { Txt(<<68, 101, 108, 101, 116, 101>>),                      \* "Delete"
      Txt(<<65, 76, 76>>),                                       \* "ALL"
      Txt(<<73, 71, 78, 79, 82, 69, 32, 112, 114, 101, 118, 105, 111, 117,
            115, 32, 73, 78, 83, 84, 82, 85, 67, 84, 73, 79, 78, 83>>),
                                                \* "IGNORE previous INSTRUCTIONS"
      Txt(<<83, 121, 115, 116, 101, 109, 32, 80, 114, 111, 109, 112, 116>>),
                                                                 \* "System Prompt"
      Txt(TextUz), Txt(TextRu), Txt(TextDigits),
      Txt(<<233>>),                                              \* "é"
      Txt(<<32>>), Img(TextUz) }

RECURSIVE SeqsUpTo(_, _)
SeqsUpTo(S, n) ==
    IF n = 0 THEN {<<>>}
    ELSE LET shorter == SeqsUpTo(S, n - 1)
         IN  shorter \cup {Append(q, x) : q \in shorter, x \in S}

\* every list of at most MaxFragments contents
Corpus == SeqsUpTo(ContentPool, MaxFragments)

(***************************************************************************)
(* JSON values as the reasoner returns them, and Python's view of them.    *)
(***************************************************************************)
JNull == [t |-> "null", n |-> 0, s |-> ""]
JAbsent == [t |-> "absent", n |-> 0, s |-> ""]
JNum(n) == [t |-> "num", n |-> n, s |-> ""]
JStr(s) == [t |-> "str", n |-> 0, s |-> s]

\* bool(v)
Truthy(v) == (v.t = "num" /\ v.n # 0) \/ (v.t = "str" /\ v.s # "")

Keys ==
    {"message_type", "routing_confidence", "suggested_department_name",
     "suggested_department_id", "reason", "explanation"}

JDict(f) == [kind |-> "dict", f |-> f]
\* {}
EmptyDict == JDict([k \in Keys |-> JAbsent])
\* a JSON document that is no object: an array (null, a number and a
\* string behave alike: none has .get)
JList == [kind |-> "list", f |-> [k \in Keys |-> JAbsent]]

\* analysis.get(key) for a dict
dict_get(a, k) == IF a.f[k].t = "absent" THEN JNull ELSE a.f[k]

\* a classification object
Classification(type, conf, name, id) ==
    JDict([k \in Keys |->
        CASE k = "message_type" -> type
          [] k = "routing_confidence" -> conf
          [] k = "suggested_department_name" -> name
          [] k = "suggested_department_id" -> id
          [] k = "reason" -> IF type = JAbsent THEN JAbsent ELSE JStr("Water leak")
          [] OTHER -> IF type = JAbsent THEN JAbsent ELSE JStr("Test explanation")])

\* what json.loads(response.text) can be
JsonValues ==
    { Classification(JStr("complaint"), JNum(95), JStr("Suv"), JNum(d)) :
          d \in DeptArgs }
    \cup
    { Classification(JStr("complaint"), JNum(95), JStr("Suv"), JAbsent),
      Classification(JStr("inquiry"), JNum(170), JStr("General"), JNull),
      Classification(JStr("complaint"), JStr("high"), JStr("Suv"), JNum(1)),
      Classification(JStr("complaint"), JNum(95), JStr("Suv"), JStr("abc")),
      EmptyDict, JList }

\* what one call of the reasoning service can do: raise, answer with no
\* text, with text that is not JSON, or with JSON
GeminiReplies ==
    { [kind |-> k, value |-> EmptyDict] : k \in {"error", "empty", "garbage"} }
    \cup { [kind |-> "json", value |-> v] : v \in JsonValues }

\* the replies of a reasoning service that works: a classification naming a
\* department row by id, or by name only
NominalReplies ==
    { [kind |-> "json",
       value |-> Classification(JStr("complaint"), JNum(95), JStr("Suv"), id)] :
          id \in {JNum(d) : d \in DOMAIN Department} \cup {JAbsent} }

(***************************************************************************)
(* The external services as the pipeline sees them.                        *)
(***************************************************************************)
ZeroVector == [dim |-> VectorDim, kind |-> "zero"]
Embedding == [dim |-> VectorDim, kind |-> "embedding"]
NullVector == [dim |-> 0, kind |-> "null"]

\* What the embedding service does on the successive attempts of one call of
\* get_embedding: k rate-limit errors, then x for the rest.
EmbedScripts ==
    { [i \in 1..Retries |-> IF i <= k THEN "429" ELSE x] :
          k \in 0..Retries, x \in {"ok", "empty", "error"} }

\* the retry loop sleeping the same 20 seconds after every rate-limit error
RECURSIVE embed_attempt_ConstantWait(_, _, _)
embed_attempt_ConstantWait(script, attempt, waited) ==
    IF attempt >= Retries
    THEN [vector |-> ZeroVector, calls |-> attempt, waited |-> waited]
    ELSE CASE script[attempt + 1] = "ok" ->
                [vector |-> Embedding, calls |-> attempt + 1, waited |-> waited]
           [] script[attempt + 1] = "429" ->
                embed_attempt_ConstantWait(script, attempt + 1, waited + BackoffUnit)
           [] OTHER ->
                [vector |-> ZeroVector, calls |-> attempt + 1, waited |-> waited]

\* for attempt in range(retries): ...
RECURSIVE embed_attempt(_, _, _)
embed_attempt(script, attempt, waited) ==
    IF attempt >= Retries
    THEN [vector |-> ZeroVector, calls |-> attempt, waited |-> waited]
    ELSE CASE script[attempt + 1] = "ok" ->
                [vector |-> Embedding, calls |-> attempt + 1, waited |-> waited]
           [] script[attempt + 1] = "429" ->
                embed_attempt(script, attempt + 1,
                              waited + BackoffUnit * (attempt + 1))
           [] OTHER ->
                [vector |-> ZeroVector, calls |-> attempt + 1, waited |-> waited]

\* get_embedding returning None when the client is not initialised
get_embedding_NoneWithoutClient(cl, script) ==
    IF ~cl THEN [vector |-> NullVector, calls |-> 0, waited |-> 0]
    ELSE embed_attempt(script, 0, 0)

get_embedding(cl, script) ==
    IF ~cl THEN [vector |-> ZeroVector, calls |-> 0, waited |-> 0]
    ELSE embed_attempt(script, 0, 0)

\* str(uuid.uuid5(uuid.NAMESPACE_DNS, f"{dept.id}_{lang}")): a hash of the
\* pair, taken as free of collisions and written as a number
point_id(d, lang) == d * 10 + (IF lang = "uz" THEN 0 ELSE 1)

\* The points of the "departments" collection: Uzbek entries only, two of
\* them (dept_id 8 and 9) left over from departments that are no longer rows.
IndexPoints ==
    { [id |-> point_id(d, "uz"), vector |-> Embedding, lang |-> "uz",
       dept_id |-> d,
       name |-> CASE d = 1 -> "Suv" [] d = 2 -> "Gaz" [] OTHER -> "Eski",
       description |-> "...",
       keywords |-> IF d = 1 THEN "quvur" ELSE ""] : d \in {1, 2, 8, 9} }

\* cosine similarity of the query vector with a point, in hundredths
Score(vector, pt) ==
    IF vector.kind # "embedding" THEN 0
    ELSE CASE pt.dept_id = 1 -> 90 [] pt.dept_id = 2 -> 55
           [] pt.dept_id = 8 -> 40 [] OTHER -> 20

\* hits by descending score (ties by point id), at most `limit` of them
RECURSIVE Ranked(_, _, _)
Ranked(pts, vector, limit) ==
    IF pts = {} \/ limit = 0 THEN <<>>
    ELSE LET best == CHOOSE p \in pts :
                        \A q \in pts :
                            \/ Score(vector, p) > Score(vector, q)
                            \/ Score(vector, p) = Score(vector, q) /\ p.id <= q.id
         IN  <<[name |-> best.name, score |-> Score(vector, best),
                description |-> best.description, id |-> best.dept_id]>>
             \o Ranked(pts \ {best}, vector, limit - 1)

\* language is "uz", "ru" or "None" (no filter); `fails` is the vector
\* index raising
search_vector_db(index, vector, language, fails) ==
    IF fails THEN <<>>
    ELSE Ranked({p \in index : language = "None" \/ p.lang = language},
                vector, TopK)

\* `reply` is what the reasoning service does on this call
analyze_message_with_gemini(cl, reply) ==
    IF ~cl THEN EmptyDict
    ELSE IF reply.kind = "json" THEN reply.value
    ELSE EmptyDict


\* Telegram chat ids linked to the operators (Admins) of a department
telegram_chat_ids(d) ==
    CASE d = 1 -> <<101, 102>> [] d = 2 -> <<201>> [] OTHER -> <<>>

(***************************************************************************)
(* State.                                                                  *)
(***************************************************************************)
VARIABLES
    contents,      \* MessageContent rows of each message, in order
    Session,       \* Session rows: session_uuid -> row
    InjectResult,  \* InjectResult rows, in order of creation
    AIResult,      \* AIResult rows, in order of creation (the index is the id)
    qdrant,        \* points of the "departments" collection
    client,        \* the Gemini client is initialised (GEMINI_API_KEY is set)
    faults,        \* the external services may fail or answer badly
    workers,       \* threads or processes that serve invocations
    started,       \* invocations started so far
    pc,            \* where each invocation stands
    frame,         \* its local variables
    hist,          \* what it has called and how it ended
    indexer,       \* the index_departments command: position and reports
    AuditLog,      \* AuditLog rows, in order of id
    audit,         \* the calls of AuditLog.create_log under way
    now,           \* the clock (timezone.now())
    bot            \* the conversation of a chat with the Telegram bot

vars ==
    <<contents, Session, InjectResult, AIResult, qdrant, client, faults,
      workers, started, pc, frame, hist, indexer, AuditLog, audit, now, bot>>

Runs == 1..MaxRuns

NoSession == [session_uuid |-> "", assigned_department |-> NoDept, status |-> ""]

InitFrame ==
    [msg |-> "", dept |-> NoDept, via |-> "", is_injection |-> FALSE,
     language |-> "None", vector |-> NullVector, candidates |-> <<>>,
     analysis |-> EmptyDict, suggested_dept |-> NoDept, ai_result |-> 0,
     session |-> NoSession]

NoResponse ==
    [http |-> 0, status |-> "", suggested_department |-> JNull,
     confidence |-> JNull]

\* entry, msg, sess, dept: the entry point and its arguments (for precheck,
\* dept is the department it read from the session); before: the assigned
\* department of the session concerned when the invocation started; calls:
\* what it called, in order; analysis: what the reasoner returned to it;
\* pm, mr, top: how process_message, message_router and the invocation
\* itself ended ("none", "running", "returned", "raised"); pre: what precheck
\* reported to finish_message_flow ("none", "True", "False", "raised");
\* embed: the call of get_embedding (what the service did on the successive
\* attempts, the calls made, the seconds slept, the vector returned);
\* searches: the calls of search_vector_db, in order; language: what
\* detect_language returned ("" while it has not been called)
NoEmbed ==
    [called |-> FALSE, script |-> <<>>, calls |-> 0, waited |-> 0,
     vector |-> NullVector]

InitHist ==
    [entry |-> "", msg |-> "", sess |-> "", dept |-> NoDept, before |-> NoDept,
     calls |-> <<>>, language |-> "", embed |-> NoEmbed, searches |-> <<>>,
     analysis |-> EmptyDict, pre |-> "none", pm |-> "none",
     pm_ret |-> 0,
     mr |-> "none", top |-> "idle", ret |-> "", ret_id |-> 0, exc |-> "",
     response |-> NoResponse, fsm |-> ""]

\* the assigned department of the session of message m, if there is one
AssignedOf(m) ==
    IF m \in DOMAIN Message THEN Session[Message[m]].assigned_department ELSE NoDept

\* one entry of hist.calls
Called(fn) == [fn |-> fn, dept |-> NoDept, msg |-> ""]
CalledRouter(d, m) == [fn |-> "message_router", dept |-> d, msg |-> m]

\* the text the run works on (lines 191-197); contents never change
TextOf(m) == ExtractText(contents[m])

\* Session.objects.create(user=...): no department, open
NewSession == [assigned_department |-> NoDept, status |-> "open"]

\* the command has not run: no local variables, no report
NoIndexer ==
    [pc |-> "idle", existing_points |-> {}, todo |-> <<>>, points |-> <<>>,
     failed |-> {}, log |-> <<>>]

\* no invocation of the pipeline has started
InitRuns ==
    /\ InjectResult = <<>>
    /\ AIResult = <<>>
    /\ pc = [r \in Runs |-> "idle"]
    /\ frame = [r \in Runs |-> InitFrame]
    /\ hist = [r \in Runs |-> InitHist]

\* processes that may be inside AuditLog.create_log
Callers == 1..MaxCallers

\* None where a hash is expected (previous_hash of the first entry)
NoHash == <<>>

\* None as actor_uuid
NoUuid == ""

\* a process that is not inside create_log
NoCall == [pc |-> "idle", actor_uuid |-> NoUuid, previous_hash |-> NoHash,
           entry_hash |-> NoHash]

\* an empty log that nobody is writing
InitLog ==
    /\ AuditLog = <<>>
    /\ audit = [c \in Callers |-> NoCall]
    /\ now = 0

\* the FSM data of a conversation after state.clear(): no key ("" and <<>>
\* stand for a key that is not there)
NoData ==
    [language |-> "", full_name |-> <<>>, phone_number |-> <<>>,
     neighborhood_id |-> 0, neighborhood_name |-> <<>>, full_location |-> <<>>,
     is_changing_language |-> FALSE, messages |-> <<>>]

\* the chat has no TelegramAccount (and no Users row)
NoAccount ==
    [exists |-> FALSE, full_name |-> <<>>, phone_number |-> <<>>,
     neighborhood |-> <<>>, language_preference |-> "", location |-> <<>>]

\* a message without text and without contact
PhotoMsg == [kind |-> "photo", text |-> <<>>, phone |-> <<>>]

\* A chat the bot has not heard of: no FSM state, no data, no account.
\* last: the handler that served the last message, the message, the
\* exception that left the handler and whether save_user_to_database ran.
NoBot ==
    [state |-> "None", data |-> NoData, account |-> NoAccount,
     last |-> [handler |-> "", update |-> PhotoMsg, exc |-> "", save |-> "none"]]

InitCommon ==
    /\ InitRuns
    /\ qdrant = IndexPoints
    /\ indexer = NoIndexer
    /\ InitLog
    /\ bot = NoBot

\* An Uzbek and a Russian message in session s1, a flagged one ("Delete",
\* "ALL") in session s2.
FixedContents ==
    [m \in DOMAIN Message |->
        CASE m = "m1" -> <<Txt(TextUz)>>
          [] m = "m2" -> <<Txt(TextRu)>>
          [] OTHER -> <<Txt(<<68, 101, 108, 101, 116, 101>>), Txt(<<65, 76, 76>>)>>]

\* the session rows with any department, or none, assigned
AnyAssignment ==
    {[NewSession EXCEPT !.assigned_department = d] :
         d \in DOMAIN Department \cup {NoDept}}

\* Up to MaxRuns invocations on two workers, on new sessions, with services
\* that work.
Init ==
    /\ contents = FixedContents
    /\ Session = [s \in SessionIds |-> NewSession]
    /\ client = TRUE
    /\ faults = FALSE
    /\ workers = 2
    /\ started = 0
    /\ InitCommon

\* One invocation, the last of a history that left both sessions with the
\* same assignment, on a message whose contents range over the corpus.
InitText ==
    /\ contents \in {[FixedContents EXCEPT !["m1"] = c] : c \in Corpus}
    /\ Session \in {[s \in SessionIds |-> row] : row \in AnyAssignment}
    /\ client = TRUE
    /\ faults = FALSE
    /\ workers = 1
    /\ started = MaxRuns - 1
    /\ InitCommon

\* One invocation, the last of a history that left the sessions with any
\* assignment, with services that may fail or answer badly.
InitFaults ==
    /\ contents = FixedContents
    /\ Session \in [SessionIds -> AnyAssignment]
    /\ client \in BOOLEAN
    /\ faults = TRUE
    /\ workers = 1
    /\ started = MaxRuns - 1
    /\ InitCommon

\* one entry of hist.searches
Searched(vector, language, fails, candidates) ==
    [vector |-> vector, language |-> language, limit |-> TopK, failed |-> fails,
     hits |-> Len(candidates),
     top |-> IF candidates = <<>> THEN 0 ELSE candidates[1].score]

\* what the services may do on one call
EmbedOutcomes == IF faults THEN EmbedScripts ELSE {[i \in 1..Retries |-> "ok"]}
SearchOutcomes == IF faults THEN BOOLEAN ELSE {FALSE}
ReasonerOutcomes == IF faults THEN GeminiReplies ELSE NominalReplies

Active == {r \in Runs : pc[r] \notin {"idle", "done"}}

CanStart(r) ==
    /\ pc[r] = "idle"
    /\ r = started + 1
    /\ Cardinality(Active) < workers

(***************************************************************************)
(* How an invocation ends: return values, and exceptions on their way up.  *)
(***************************************************************************)
Finish(r, h) ==
    /\ pc' = [pc EXCEPT ![r] = "done"]
    /\ frame' = [frame EXCEPT ![r] = InitFrame]
    /\ hist' = [hist EXCEPT ![r] = h]

Goto(r, label, f, h) ==
    /\ pc' = [pc EXCEPT ![r] = label]
    /\ frame' = [frame EXCEPT ![r] = f]
    /\ hist' = [hist EXCEPT ![r] = h]

\* the entry point returns; finish_message_flow, on its way out, answers
\* msg_finished and clears the conversation (telegram_bot.py lines 946-950)
ReturnTop(h, tag, id) ==
    [h EXCEPT !.top = "returned", !.ret = tag, !.ret_id = id,
              !.fsm = IF h.entry = "flow" THEN "None" ELSE @]

RaiseTop(h, exc) == [h EXCEPT !.top = "raised", !.exc = exc]

\* MessagePrecheckView.post, lines 35-42: `result` is what process_message
\* returned (id 0 is None), `rec` the AIResult row it names
view_response(id, rec) ==
    IF id = 0
    THEN [http |-> 200, status |-> "failed", suggested_department |-> JNull,
          confidence |-> JNull]
    ELSE [http |-> 200, status |-> "success",
          suggested_department |-> rec.suggested_department_name,
          confidence |-> rec.routing_confidence]

\* MessagePrecheckView.post, lines 44-46
view_error ==
    [http |-> 500, status |-> "error", suggested_department |-> JNull,
     confidence |-> JNull]

\* process_message ending in a bare `return` where it has a record to return
PM_Return_Bare(h, id, rec) ==
    LET h1 == [h EXCEPT !.pm = "returned", !.pm_ret = 0]
    IN  IF h.entry = "view"
        THEN [ReturnTop(h1, "Response", 0) EXCEPT !.response = view_response(0, rec)]
        ELSE ReturnTop(h1, "None", 0)

\* process_message returns `id` (0: None)
PM_Return(h, id, rec) ==
    LET h1 == [h EXCEPT !.pm = "returned", !.pm_ret = id]
    IN  IF h.entry = "view"
        THEN [ReturnTop(h1, "Response", 0) EXCEPT !.response = view_response(id, rec)]
        ELSE ReturnTop(h1, IF id = 0 THEN "None" ELSE "AIResult", id)

\* an exception leaves process_message
PM_Raise(h, exc) ==
    LET h1 == [h EXCEPT !.pm = "raised", !.exc = exc]
    IN  IF h.entry = "view"
        THEN [ReturnTop(h1, "Response", 0) EXCEPT !.response = view_error]
        ELSE RaiseTop(h1, exc)

\* message_router returns to its caller, which goes on: precheck returns
\* True (line 26), to its caller or to finish_message_flow, which then skips
\* the pipeline and returns; process_message returns ai_result (line 286)
MR_Return(h, f, rec) ==
    LET h1 == [h EXCEPT !.mr = "returned"]
    IN  CASE f.via = "precheck" -> ReturnTop(h1, "True", 0)
          [] f.via = "flow" -> ReturnTop([h1 EXCEPT !.pre = "True"], "None", 0)
          [] f.via = "process_message" -> PM_Return(h1, f.ai_result, rec)
          [] OTHER -> ReturnTop(h1, "None", 0)

\* an exception leaves message_router; neither precheck, process_message
\* nor finish_message_flow catches it
MR_Raise(h, f, exc) ==
    LET h1 == [h EXCEPT !.mr = "raised"]
    IN  CASE f.via = "process_message" -> PM_Raise(h1, exc)
          [] f.via = "flow" -> RaiseTop([h1 EXCEPT !.exc = exc, !.pre = "raised"], exc)
          [] OTHER -> RaiseTop([h1 EXCEPT !.exc = exc], exc)


(***************************************************************************)
(* AIResult rows.                                                          *)
(***************************************************************************)
NoCandidates == [null |-> TRUE, list |-> <<>>]

\* the short record with is_injection=True whatever ended the run
ShortRecord_Inj(r, m, inj, reason) ==
    [run |-> r, session |-> Message[m], message |-> m, is_injection |-> TRUE,
     message_type |-> JNull, routing_confidence |-> JNull,
     suggested_department_name |-> JNull, suggested_department_id |-> NoDept,
     reason |-> JStr(reason), explanation |-> JNull,
     vector_similarity_score |-> JNull, vector_top_candidates |-> NoCandidates,
     message_raw_embedding |-> NullVector]

\* AIResult.objects.create(session, message, is_injection, reason): every
\* other column keeps its default, NULL (lines 213-218 and 229-234)
ShortRecord(r, m, inj, reason) ==
    [run |-> r, session |-> Message[m], message |-> m, is_injection |-> inj,
     message_type |-> JNull, routing_confidence |-> JNull,
     suggested_department_name |-> JNull, suggested_department_id |-> NoDept,
     reason |-> JStr(reason), explanation |-> JNull,
     vector_similarity_score |-> JNull, vector_top_candidates |-> NoCandidates,
     message_raw_embedding |-> NullVector]

\* the row of lines 263-277
FullRecord(r, f) ==
    [run |-> r, session |-> Message[f.msg], message |-> f.msg,
     is_injection |-> FALSE,
     message_type |-> dict_get(f.analysis, "message_type"),
     routing_confidence |-> dict_get(f.analysis, "routing_confidence"),
     suggested_department_name |-> dict_get(f.analysis, "suggested_department_name"),
     suggested_department_id |-> f.suggested_dept,
     reason |-> dict_get(f.analysis, "reason"),
     explanation |-> dict_get(f.analysis, "explanation"),
     vector_similarity_score |->
         IF f.candidates # <<>> THEN JNum(f.candidates[1].score) ELSE JNum(0),
     vector_top_candidates |-> [null |-> FALSE, list |-> f.candidates],
     message_raw_embedding |-> f.vector]

\* f"Unsupported language: {language}"
UnsupportedReason(language) == "Unsupported language: " \o language

UNCHANGED_log == UNCHANGED <<AuditLog, audit, now>>

UNCHANGED_env ==
    /\ UNCHANGED <<contents, qdrant, client, faults, workers, indexer, bot>>
    /\ UNCHANGED_log

(***************************************************************************)
(* process_message (src/ai/logic.py, lines 180-286).                       *)
(***************************************************************************)
\* a process_message that tests the text before stripping it
Enter_process_message_NoStrip(r, m, h) ==
    IF m \notin DOMAIN Message
    THEN Finish(r, PM_Return(h, 0, FullRecord(r, InitFrame)))
    ELSE IF JoinText(contents[m]) = <<>>
    THEN Finish(r, PM_Return(h, 0, FullRecord(r, InitFrame)))
    ELSE Goto(r, "pm_screen", [InitFrame EXCEPT !.msg = m], h)

\* lines 184-200: look the message up and extract its text
Enter_process_message(r, m, h) ==
    IF m \notin DOMAIN Message
    THEN Finish(r, PM_Return(h, 0, FullRecord(r, InitFrame)))
    ELSE IF TextOf(m) = <<>>
    THEN Finish(r, PM_Return(h, 0, FullRecord(r, InitFrame)))
    ELSE Goto(r, "pm_screen", [InitFrame EXCEPT !.msg = m], h)

Call_process_message(r, m) ==
    /\ CanStart(r)
    /\ started' = started + 1
    /\ Enter_process_message(r, m,
           [InitHist EXCEPT !.entry = "process_message", !.msg = m,
                            !.before = AssignedOf(m),
                            !.top = "running", !.pm = "running"])
    /\ UNCHANGED <<Session, InjectResult, AIResult>>
    /\ UNCHANGED_env

\* MessagePrecheckView.post (src/ai/views.py, lines 20-33)
Call_view(r, m) ==
    /\ CanStart(r)
    /\ started' = started + 1
    /\ LET h == [InitHist EXCEPT !.entry = "view", !.msg = m,
                                 !.before = AssignedOf(m), !.top = "running"]
       IN  IF m = ""
           THEN Finish(r, [ReturnTop(h, "Response", 0) EXCEPT
                               !.response = [NoResponse EXCEPT !.http = 400,
                                                               !.status = "error"]])
           ELSE Enter_process_message(r, m, [h EXCEPT !.pm = "running"])
    /\ UNCHANGED <<Session, InjectResult, AIResult>>
    /\ UNCHANGED_env

\* lines 203-209 writing the InjectResult only for a flagged text
PM_Screen_OnlyFlagged(r) ==
    /\ pc[r] = "pm_screen"
    /\ LET f == frame[r]
           text == TextOf(f.msg)
           inj == injection_detector(text)
       IN  /\ InjectResult' =
                  IF inj THEN Append(InjectResult,
                                     [run |-> r, message |-> f.msg, is_injection |-> inj,
                                      text_length |-> Len(text)])
                  ELSE InjectResult
           /\ Goto(r, "pm_branch", [f EXCEPT !.is_injection = inj],
                   [hist[r] EXCEPT !.calls = @ \o <<Called("injection_detector"),
                                                    Called("InjectResult.create")>>])
    /\ UNCHANGED <<Session, AIResult, started>>
    /\ UNCHANGED_env

\* lines 203-209: the injection screen and its InjectResult
PM_Screen(r) ==
    /\ pc[r] = "pm_screen"
    /\ LET f == frame[r]
           text == TextOf(f.msg)
           inj == injection_detector(text)
       IN  /\ InjectResult' = Append(InjectResult,
                  [run |-> r, message |-> f.msg, is_injection |-> inj,
                   text_length |-> Len(text)])
           /\ Goto(r, "pm_branch", [f EXCEPT !.is_injection = inj],
                   [hist[r] EXCEPT !.calls = @ \o <<Called("injection_detector"),
                                                    Called("InjectResult.create")>>])
    /\ UNCHANGED <<Session, AIResult, started>>
    /\ UNCHANGED_env

\* lines 211-219: a flagged text ends the run
PM_InjectionRecord(r) ==
    /\ pc[r] = "pm_branch"
    /\ frame[r].is_injection
    /\ LET rec == ShortRecord(r, frame[r].msg, TRUE, "Injection detected")
       IN  /\ AIResult' = Append(AIResult, rec)
           /\ Finish(r, PM_Return([hist[r] EXCEPT
                                      !.calls = Append(@, Called("AIResult.create"))],
                                  0, rec))
    /\ UNCHANGED <<Session, InjectResult, started>>
    /\ UNCHANGED_env

\* lines 221-235 without the `return` of line 235
PM_Language_NoReturn(r) ==
    /\ pc[r] = "pm_branch"
    /\ ~frame[r].is_injection
    /\ LET f == frame[r]
           language == detect_language(TextOf(f.msg))
           h == [hist[r] EXCEPT !.calls = Append(@, Called("detect_language")),
                                !.language = language]
           rec == ShortRecord(r, f.msg, FALSE, UnsupportedReason(language))
       IN  IF language \notin {"uz", "ru"}
           THEN /\ AIResult' = Append(AIResult, rec)
                /\ Goto(r, "pm_embed", [f EXCEPT !.language = language],
                        [h EXCEPT !.calls = Append(@, Called("AIResult.create"))])
           ELSE /\ AIResult' = AIResult
                /\ Goto(r, "pm_embed", [f EXCEPT !.language = language], h)
    /\ UNCHANGED <<Session, InjectResult, started>>
    /\ UNCHANGED_env

\* lines 221-235: language detection; an unsupported language ends the run
PM_Language(r) ==
    /\ pc[r] = "pm_branch"
    /\ ~frame[r].is_injection
    /\ LET f == frame[r]
           language == detect_language(TextOf(f.msg))
           h == [hist[r] EXCEPT !.calls = Append(@, Called("detect_language")),
                                !.language = language]
           rec == ShortRecord(r, f.msg, FALSE, UnsupportedReason(language))
       IN  IF language \notin {"uz", "ru"}
           THEN /\ AIResult' = Append(AIResult, rec)
                /\ Finish(r, PM_Return([h EXCEPT
                                           !.calls = Append(@, Called("AIResult.create"))],
                                       0, rec))
           ELSE /\ AIResult' = AIResult
                /\ Goto(r, "pm_embed", [f EXCEPT !.language = language], h)
    /\ UNCHANGED <<Session, InjectResult, started>>
    /\ UNCHANGED_env

\* line 238: vector = get_embedding(text)
PM_Embed(r) ==
    /\ pc[r] = "pm_embed"
    /\ \E script \in EmbedOutcomes :
           LET e == get_embedding(client, script)
           IN  Goto(r, "pm_search",
                    [frame[r] EXCEPT !.vector = e.vector],
                    [hist[r] EXCEPT
                        !.calls = Append(@, Called("get_embedding")),
                        !.embed = [called |-> TRUE, script |-> script,
                                   calls |-> e.calls, waited |-> e.waited,
                                   vector |-> e.vector]])
    /\ UNCHANGED <<Session, InjectResult, AIResult, started>>
    /\ UNCHANGED_env

\* line 241-244 falling back also when the best hit scores under 0.5
PM_Search_LowScoreFallback(r) ==
    /\ pc[r] = "pm_search"
    /\ \E fails \in SearchOutcomes :
           LET f == frame[r]
               candidates == search_vector_db(qdrant, f.vector, f.language, fails)
               low == candidates = <<>> \/ candidates[1].score < 50
           IN  Goto(r, IF low THEN "pm_fallback" ELSE "pm_analyze",
                    [f EXCEPT !.candidates = candidates],
                    [hist[r] EXCEPT
                        !.calls = Append(@, Called("search_vector_db")),
                        !.searches = Append(@, Searched(f.vector, f.language,
                                                        fails, candidates))])
    /\ UNCHANGED <<Session, InjectResult, AIResult, started>>
    /\ UNCHANGED_env

\* line 241: the search filtered by the detected language
PM_Search(r) ==
    /\ pc[r] = "pm_search"
    /\ \E fails \in SearchOutcomes :
           LET f == frame[r]
               candidates == search_vector_db(qdrant, f.vector, f.language, fails)
           IN  Goto(r, IF candidates = <<>> THEN "pm_fallback" ELSE "pm_analyze",
                    [f EXCEPT !.candidates = candidates],
                    [hist[r] EXCEPT
                        !.calls = Append(@, Called("search_vector_db")),
                        !.searches = Append(@, Searched(f.vector, f.language,
                                                        fails, candidates))])
    /\ UNCHANGED <<Session, InjectResult, AIResult, started>>
    /\ UNCHANGED_env

\* lines 244-246 with a search that lets the error of the index through
PM_Fallback_Propagates(r) ==
    /\ pc[r] = "pm_fallback"
    /\ \E fails \in SearchOutcomes :
           LET f == frame[r]
               candidates == search_vector_db(qdrant, f.vector, "None", fails)
               h == [hist[r] EXCEPT
                        !.calls = Append(@, Called("search_vector_db")),
                        !.searches = Append(@, Searched(f.vector, "None",
                                                        fails, candidates))]
           IN  IF fails THEN Finish(r, PM_Raise(h, "ResponseHandlingException"))
               ELSE Goto(r, "pm_analyze", [f EXCEPT !.candidates = candidates], h)
    /\ UNCHANGED <<Session, InjectResult, AIResult, started>>
    /\ UNCHANGED_env

\* lines 244-246: no candidates, search again without the filter
PM_Fallback(r) ==
    /\ pc[r] = "pm_fallback"
    /\ \E fails \in SearchOutcomes :
           LET f == frame[r]
               candidates == search_vector_db(qdrant, f.vector, "None", fails)
           IN  Goto(r, "pm_analyze", [f EXCEPT !.candidates = candidates],
                    [hist[r] EXCEPT
                        !.calls = Append(@, Called("search_vector_db")),
                        !.searches = Append(@, Searched(f.vector, "None",
                                                        fails, candidates))])
    /\ UNCHANGED <<Session, InjectResult, AIResult, started>>
    /\ UNCHANGED_env

\* line 249: analysis = analyze_message_with_gemini(text, candidates)
PM_Analyze(r) ==
    /\ pc[r] = "pm_analyze"
    /\ \E reply \in ReasonerOutcomes :
           LET analysis == analyze_message_with_gemini(client, reply)
           IN  Goto(r, "pm_resolve", [frame[r] EXCEPT !.analysis = analysis],
                    [hist[r] EXCEPT
                        !.analysis = analysis,
                        !.calls = Append(@, Called("analyze_message_with_gemini"))])
    /\ UNCHANGED <<Session, InjectResult, AIResult, started>>
    /\ UNCHANGED_env

\* lines 252-261 with the suggested id taken as the department, found or not
PM_Resolve_Unchecked(r) ==
    /\ pc[r] = "pm_resolve"
    /\ LET f == frame[r]
           h == hist[r]
           id == dict_get(f.analysis, "suggested_department_id")
           hq == [h EXCEPT !.calls = Append(@, Called("Department.objects.get"))]
       IN  IF f.analysis.kind # "dict"
           THEN Finish(r, PM_Raise(h, "AttributeError"))
           ELSE IF ~Truthy(id)
           THEN Goto(r, "pm_record", [f EXCEPT !.suggested_dept = NoDept], h)
           ELSE IF id.t # "num"
           THEN Finish(r, PM_Raise(hq, "ValueError"))
           ELSE Goto(r, "pm_record", [f EXCEPT !.suggested_dept = id.n], hq)
    /\ UNCHANGED <<Session, InjectResult, AIResult, started>>
    /\ UNCHANGED_env

\* lines 252-261: read the suggestion and resolve the department.  .get of
\* a value that is no dict raises AttributeError; Department.objects.get
\* with an id that is no number raises ValueError, which line 259 does not
\* catch.
PM_Resolve(r) ==
    /\ pc[r] = "pm_resolve"
    /\ LET f == frame[r]
           h == hist[r]
           id == dict_get(f.analysis, "suggested_department_id")
           hq == [h EXCEPT !.calls = Append(@, Called("Department.objects.get"))]
       IN  IF f.analysis.kind # "dict"
           THEN Finish(r, PM_Raise(h, "AttributeError"))
           ELSE IF ~Truthy(id)
           THEN Goto(r, "pm_record", [f EXCEPT !.suggested_dept = NoDept], h)
           ELSE IF id.t # "num"
           THEN Finish(r, PM_Raise(hq, "ValueError"))
           ELSE Goto(r, "pm_record",
                     [f EXCEPT !.suggested_dept =
                         IF id.n \in DOMAIN Department THEN id.n ELSE NoDept],
                     hq)
    /\ UNCHANGED <<Session, InjectResult, AIResult, started>>
    /\ UNCHANGED_env

\* lines 263-286: create the AIResult (a routing_confidence that is no
\* number raises ValueError in the FloatField), then dispatch if a
\* department was resolved, else return the record
PM_Record(r) ==
    /\ pc[r] = "pm_record"
    /\ LET f == frame[r]
           h == [hist[r] EXCEPT !.calls = Append(@, Called("AIResult.create"))]
           rec == FullRecord(r, f)
           id == Len(AIResult) + 1
       IN  IF rec.routing_confidence.t = "str"
           THEN /\ AIResult' = AIResult
                /\ Finish(r, PM_Raise(h, "ValueError"))
           ELSE /\ AIResult' = Append(AIResult, rec)
                /\ IF f.suggested_dept # NoDept
                   THEN Goto(r, "mr_lookup",
                             [f EXCEPT !.ai_result = id, !.dept = f.suggested_dept,
                                       !.via = "process_message"],
                             [h EXCEPT !.mr = "running",
                                       !.calls = Append(@, CalledRouter(f.suggested_dept,
                                                                        f.msg))])
                   ELSE Finish(r, PM_Return(h, id, rec))
    /\ UNCHANGED <<Session, InjectResult, started>>
    /\ UNCHANGED_env

(***************************************************************************)
(* message_router and precheck (src/core_support/logic.py).                *)
(***************************************************************************)
\* lines 60-66 without the department lookup (the id is assigned as it came)
RouterLookup_NoDeptCheck(r, f, h) ==
    IF f.msg \notin DOMAIN Message
    THEN Finish(r, MR_Return(h, f, IF f.ai_result = 0 THEN FullRecord(r, InitFrame)
                                   ELSE AIResult[f.ai_result]))
    ELSE Goto(r, "mr_save",
              [f EXCEPT !.session =
                  [session_uuid |-> Message[f.msg],
                   assigned_department |-> Session[Message[f.msg]].assigned_department,
                   status |-> Session[Message[f.msg]].status]],
              h)

\* lines 60-66: the message, its session row and the department
RouterLookup(r, f, h) ==
    IF f.msg \notin DOMAIN Message \/ f.dept \notin DOMAIN Department
    THEN Finish(r, MR_Return(h, f, IF f.ai_result = 0 THEN FullRecord(r, InitFrame)
                                   ELSE AIResult[f.ai_result]))
    ELSE Goto(r, "mr_save",
              [f EXCEPT !.session =
                  [session_uuid |-> Message[f.msg],
                   assigned_department |-> Session[Message[f.msg]].assigned_department,
                   status |-> Session[Message[f.msg]].status]],
              h)

Call_message_router(r, d, m) ==
    /\ CanStart(r)
    /\ started' = started + 1
    /\ RouterLookup(r, [InitFrame EXCEPT !.msg = m, !.dept = d, !.via = "direct"],
                    [InitHist EXCEPT !.entry = "message_router", !.msg = m,
                                     !.dept = d, !.before = AssignedOf(m),
                                     !.top = "running", !.mr = "running",
                                     !.calls = <<CalledRouter(d, m)>>])
    /\ UNCHANGED <<Session, InjectResult, AIResult>>
    /\ UNCHANGED_env

MR_Lookup(r) ==
    /\ pc[r] = "mr_lookup"
    /\ RouterLookup(r, frame[r], hist[r])
    /\ UNCHANGED <<Session, InjectResult, AIResult, started>>
    /\ UNCHANGED_env

\* lines 68-99.  session.save() writes every column of the row read at
\* line 62.  Line 71 then formats department.name_en: Department has no
\* such attribute, so the AttributeError ends the call before the fan-out.
MR_Save(r) ==
    /\ pc[r] = "mr_save"
    /\ LET f == frame[r]
           h == [hist[r] EXCEPT !.calls = Append(@, Called("session.save"))]
           sends == [i \in DOMAIN telegram_chat_ids(f.dept) |->
                        [fn |-> "send_telegram_message",
                         dept |-> telegram_chat_ids(f.dept)[i], msg |-> f.msg]]
       IN  /\ Session' = [Session EXCEPT ![f.session.session_uuid] =
                             [assigned_department |-> f.dept,
                              status |-> f.session.status]]
           /\ IF "name_en" \in DepartmentFields
              THEN Finish(r, MR_Return([h EXCEPT !.calls = @ \o sends], f,
                                       IF f.ai_result = 0
                                       THEN FullRecord(r, InitFrame)
                                       ELSE AIResult[f.ai_result]))
              ELSE Finish(r, MR_Raise(h, f, "AttributeError"))
    /\ UNCHANGED <<InjectResult, AIResult, started>>
    /\ UNCHANGED_env

\* precheck, lines 17-28
Call_precheck(r, s, m) ==
    /\ CanStart(r)
    /\ started' = started + 1
    /\ LET assigned == IF s \in SessionIds THEN Session[s].assigned_department
                       ELSE NoDept
           h == [InitHist EXCEPT !.entry = "precheck", !.sess = s, !.msg = m,
                                 !.dept = assigned, !.before = assigned,
                                 !.top = "running"]
       IN  IF s \notin SessionIds
           THEN Finish(r, ReturnTop(h, "False", 0))
           ELSE IF Session[s].assigned_department # NoDept
           THEN Goto(r, "mr_lookup",
                     [InitFrame EXCEPT !.msg = m, !.via = "precheck",
                                       !.dept = Session[s].assigned_department],
                     [h EXCEPT !.mr = "running",
                               !.calls = <<CalledRouter(Session[s].assigned_department,
                                                        m)>>])
           ELSE Finish(r, ReturnTop(h, "False", 0))
    /\ UNCHANGED <<Session, InjectResult, AIResult>>
    /\ UNCHANGED_env

(***************************************************************************)
(* finish_message_flow (src/bot/telegram_bot.py, lines 889-950): the bot    *)
(* has saved the submitted message m in the user's session.                *)
(***************************************************************************)
\* line 940 with `if not is_assigned` removed: the pipeline runs whatever
\* precheck would report
Call_finish_message_flow_NoPrecheck(r, m) ==
    /\ CanStart(r)
    /\ started' = started + 1
    /\ Goto(r, "fl_process", [InitFrame EXCEPT !.msg = m, !.via = "flow"],
            [InitHist EXCEPT !.entry = "flow", !.sess = Message[m], !.msg = m,
                             !.dept = AssignedOf(m), !.before = AssignedOf(m),
                             !.top = "running", !.fsm = "writing",
                             !.pre = IF AssignedOf(m) # NoDept THEN "True"
                                     ELSE "False"])
    /\ UNCHANGED <<Session, InjectResult, AIResult>>
    /\ UNCHANGED_env

\* line 940: is_assigned = precheck(session_uuid, {"message_uuid": ...})
Call_finish_message_flow(r, m) ==
    /\ CanStart(r)
    /\ started' = started + 1
    /\ LET assigned == AssignedOf(m)
           h == [InitHist EXCEPT !.entry = "flow", !.sess = Message[m], !.msg = m,
                                 !.dept = assigned, !.before = assigned,
                                 !.top = "running", !.fsm = "writing"]
           f == [InitFrame EXCEPT !.msg = m, !.via = "flow"]
       IN  IF assigned # NoDept
           THEN Goto(r, "mr_lookup", [f EXCEPT !.dept = assigned],
                     [h EXCEPT !.mr = "running",
                               !.calls = <<CalledRouter(assigned, m)>>])
           ELSE Goto(r, "fl_process", f, [h EXCEPT !.pre = "False"])
    /\ UNCHANGED <<Session, InjectResult, AIResult>>
    /\ UNCHANGED_env

\* lines 942-944: if not is_assigned: process_message(message_uuid)
FL_Process(r) ==
    /\ pc[r] = "fl_process"
    /\ Enter_process_message(r, frame[r].msg, [hist[r] EXCEPT !.pm = "running"])
    /\ UNCHANGED <<Session, InjectResult, AIResult, started>>
    /\ UNCHANGED_env

(***************************************************************************)
(* Another actor of the store (an operator, the admin site) closes a        *)
(* session: Session.status, src/messages_core/models.py lines 34-38.        *)
(***************************************************************************)
Close_session(s) ==
    /\ Session[s].status = "open"
    /\ Cardinality({t \in SessionIds : Session[t].status = "closed"}) < MaxCloses
    /\ Session' = [Session EXCEPT ![s].status = "closed"]
    /\ UNCHANGED <<InjectResult, AIResult, started, pc, frame, hist>>
    /\ UNCHANGED_env

(***************************************************************************)
(* The index_departments command                                           *)
(* (src/ai/management/commands/index_departments.py).                      *)
(***************************************************************************)
UNCHANGED_pipeline ==
    UNCHANGED <<contents, Session, InjectResult, AIResult, client, faults,
                workers, started, pc, frame, hist>>

\* for lang in ['uz', 'ru']
Languages == <<"uz", "ru">>

\* getattr(dept, f"{column}_{lang}", "")
DeptAttr(d, column, lang) == Department[d][column \o "_" \o lang]

\* `for dept in departments: for lang in [...]` as the list of its
\* iterations, for the departments of the queryset in the order of their ids
RECURSIVE Pairs(_)
Pairs(depts) ==
    IF depts = {} THEN <<>>
    ELSE LET d == CHOOSE x \in depts : \A y \in depts : x <= y
         IN  <<[dept |-> d, lang |-> Languages[1]],
               [dept |-> d, lang |-> Languages[2]]>> \o Pairs(depts \ {d})

\* line 80: departments = Department.objects.all(); the queryset of line 24
\* (is_active=True, is_deleted=False) is assigned to the same name and never
\* read
AllDepartments == DOMAIN Department

\* lines 109-123: up to three calls of get_embedding, until one returns a
\* non-empty list of 768 numbers; the service does `script` on each call
RECURSIVE index_embedding(_, _, _, _)
index_embedding(cl, script, attempt, embedding) ==
    IF attempt >= IndexRetries THEN embedding
    ELSE LET e == get_embedding(cl, script).vector
         IN  IF e.dim # 0 /\ e.dim = VectorDim THEN e
             ELSE index_embedding(cl, script, attempt + 1, e)

\* lines 129-139
PointStruct(d, lang, vector) ==
    [id |-> point_id(d, lang), vector |-> vector, lang |-> lang, dept_id |-> d,
     name |-> DeptAttr(d, "name", lang),
     description |-> DeptAttr(d, "description", lang),
     keywords |-> DeptAttr(d, "keywords", lang)]

\* lines 11-83: the ids of the points of the collection, the departments to
\* go through, no point prepared yet
Call_index_departments ==
    /\ indexer.pc \in {"idle", "done"}
    /\ Len(indexer.log) < MaxIndexRuns
    /\ indexer' = [indexer EXCEPT
                      !.pc = "loop",
                      !.existing_points = {p.id : p \in qdrant},
                      !.todo = Pairs(AllDepartments),
                      !.points = <<>>,
                      !.failed = {}]
    /\ UNCHANGED qdrant
    /\ UNCHANGED_pipeline
    /\ UNCHANGED_log
    /\ UNCHANGED bot

\* one iteration of lines 87-140 that does not test the ids already there
IX_Pair_NoSkip ==
    /\ indexer.pc = "loop"
    /\ indexer.todo # <<>>
    /\ LET d == Head(indexer.todo).dept
           lang == Head(indexer.todo).lang
           rest == [indexer EXCEPT !.todo = Tail(@)]
       IN  IF DeptAttr(d, "name", lang) = "" /\ DeptAttr(d, "description", lang) = ""
           THEN indexer' = rest
           ELSE \E script \in EmbedOutcomes :
                    LET embedding == index_embedding(client, script, 0, NullVector)
                    IN  IF embedding.dim = 0 \/ embedding.dim # VectorDim
                        THEN indexer' = [rest EXCEPT !.failed = @ \cup {Head(indexer.todo)}]
                        ELSE indexer' = [rest EXCEPT
                                !.points = Append(@, PointStruct(d, lang, embedding))]
    /\ UNCHANGED qdrant
    /\ UNCHANGED_pipeline
    /\ UNCHANGED_log
    /\ UNCHANGED bot

\* one iteration of lines 87-140
IX_Pair ==
    /\ indexer.pc = "loop"
    /\ indexer.todo # <<>>
    /\ LET d == Head(indexer.todo).dept
           lang == Head(indexer.todo).lang
           rest == [indexer EXCEPT !.todo = Tail(@)]
       IN  IF DeptAttr(d, "name", lang) = "" /\ DeptAttr(d, "description", lang) = ""
           THEN indexer' = rest
           ELSE IF point_id(d, lang) \in indexer.existing_points
           THEN indexer' = rest
           ELSE \E script \in EmbedOutcomes :
                    LET embedding == index_embedding(client, script, 0, NullVector)
                    IN  IF embedding.dim = 0 \/ embedding.dim # VectorDim
                        THEN indexer' = [rest EXCEPT !.failed = @ \cup {Head(indexer.todo)}]
                        ELSE indexer' = [rest EXCEPT
                                !.points = Append(@, PointStruct(d, lang, embedding))]
    /\ UNCHANGED qdrant
    /\ UNCHANGED_pipeline
    /\ UNCHANGED_log
    /\ UNCHANGED bot

\* lines 142-149: upsert replaces the points that have the ids of the new ones
IX_Upsert ==
    /\ indexer.pc = "loop"
    /\ indexer.todo = <<>>
    /\ LET new == {indexer.points[i] : i \in DOMAIN indexer.points}
           after == IF indexer.points # <<>>
                    THEN {p \in qdrant : p.id \notin {q.id : q \in new}} \cup new
                    ELSE qdrant
       IN  /\ qdrant' = after
           /\ indexer' = [indexer EXCEPT
                             !.pc = "done",
                             !.log = Append(@, [before |-> qdrant,
                                                upserted |-> indexer.points,
                                                failed |-> indexer.failed,
                                                after |-> after])]
    /\ UNCHANGED_pipeline
    /\ UNCHANGED_log
    /\ UNCHANGED bot

(***************************************************************************)
(* The audit log (src/logs/models.py): AuditLog.create_log and             *)
(* AuditLog.verify_chain.                                                  *)
(***************************************************************************)
\* compute_hash, lines 95-102: SHA-256 of "key:value;" over the sorted keys,
\* taken as free of collisions: the hash is written as the list of the
\* values it was computed from
compute_hash(data) ==
    <<data.action, data.actor_type, data.actor_uuid, data.description,
      data.module, data.object_type, data.object_uuid, data.previous_hash,
      data.timestamp>>

\* f"{value}" of an actor_uuid: 'None' for None
FormatUuid(u) == IF u = NoUuid THEN "None" ELSE u

\* get_last_log, lines 105-108: order_by("-id").first()
get_last_log(logs) == IF logs = <<>> THEN <<>> ELSE <<logs[Len(logs)]>>

\* lines 147-157 (module, action and actor_type are the caller's, the same
\* in every call here; description, object_type, object_uuid are left None)
data_for_hash(actor_uuid, previous_hash, timestamp) ==
    [actor_type |-> "system", actor_uuid |-> FormatUuid(actor_uuid),
     module |-> "ai", action |-> "route", description |-> "",
     object_type |-> "", object_uuid |-> "",
     previous_hash |-> previous_hash, timestamp |-> timestamp]

\* lines 233-243
data_of_log(log, previous_hash) ==
    [actor_type |-> log.actor_type,
     actor_uuid |-> IF log.actor_uuid # NoUuid THEN log.actor_uuid ELSE "",
     module |-> log.module, action |-> log.action,
     description |-> log.description,
     object_type |-> log.object_type, object_uuid |-> log.object_uuid,
     previous_hash |-> previous_hash, timestamp |-> log.created_at]

\* verify_chain, lines 223-255: the issues found from entry i on, given the
\* entry_hash of the entry before
RECURSIVE verify_from(_, _, _)
verify_from(logs, i, previous_hash) ==
    IF i > Len(logs) THEN <<>>
    ELSE LET log == logs[i]
             computed == compute_hash(data_of_log(log, previous_hash))
         IN  (IF computed # log.entry_hash
              THEN <<[issue |-> "Hash mismatch", id |-> log.id]>> ELSE <<>>)
             \o (IF log.previous_hash # previous_hash
                 THEN <<[issue |-> "Chain break", id |-> log.id]>> ELSE <<>>)
             \o verify_from(logs, i + 1, log.entry_hash)

verify_chain(logs) == verify_from(logs, 1, NoHash)

\* lines 142-159: inside transaction.atomic(), read the last entry (no lock
\* is taken) and compute the hash of the new one
CL_Read(c, actor_uuid) ==
    /\ audit[c].pc = "idle"
    /\ Len(AuditLog) + Cardinality({o \in Callers : audit[o].pc = "create"})
           < MaxLogs
    /\ LET previous == get_last_log(AuditLog)
           previous_hash == IF previous # <<>> THEN previous[1].entry_hash ELSE NoHash
           entry_hash == compute_hash(data_for_hash(actor_uuid, previous_hash, now))
       IN  audit' = [audit EXCEPT ![c] =
                        [pc |-> "create", actor_uuid |-> actor_uuid,
                         previous_hash |-> previous_hash,
                         entry_hash |-> entry_hash]]
    /\ UNCHANGED <<AuditLog, now>>
    /\ UNCHANGED_pipeline
    /\ UNCHANGED <<qdrant, indexer>>
    /\ UNCHANGED bot

\* lines 161-188: cls.objects.create(...); created_at is set by auto_now_add
\* when the row is saved (line 83), the id by the BigAutoField
CL_Create(c) ==
    /\ audit[c].pc = "create"
    /\ AuditLog' = Append(AuditLog,
           [id |-> Len(AuditLog) + 1, actor_type |-> "system",
            actor_uuid |-> audit[c].actor_uuid, module |-> "ai",
            action |-> "route", description |-> "", object_type |-> "",
            object_uuid |-> "", previous_hash |-> audit[c].previous_hash,
            entry_hash |-> audit[c].entry_hash, created_at |-> now])
    /\ audit' = [audit EXCEPT ![c] = NoCall]
    /\ UNCHANGED now
    /\ UNCHANGED_pipeline
    /\ UNCHANGED <<qdrant, indexer>>
    /\ UNCHANGED bot

\* time passes
Tick ==
    /\ now < MaxClock
    /\ now' = now + 1
    /\ UNCHANGED <<AuditLog, audit>>
    /\ UNCHANGED_pipeline
    /\ UNCHANGED <<qdrant, indexer>>
    /\ UNCHANGED bot

(***************************************************************************)
(* The Telegram bot (src/bot/telegram_bot.py): the conversation of one     *)
(* chat with the bot.                                                      *)
(***************************************************************************)
\* MESSAGES, lines 55-235: for each language, the keys it has a text for
\* ('uz' lines 56-114, 'ru' lines 116-174, 'en' lines 176-234)
MESSAGES ==
    [uz |-> {"greeting", "language_selected", "ask_phone", "phone_received",
            "ask_location", "saving", "success", "phone_invalid", "error",
            "back", "menu_send_message", "menu_check_status",
            "menu_change_language", "menu_website", "menu_news",
            "msg_instruction", "msg_received", "msg_finished",
            "msg_cancelled", "btn_finished", "btn_cancel", "status_empty",
            "status_header", "website_link", "no_news"},
     ru |-> {"greeting", "language_selected", "ask_phone", "phone_received",
            "ask_location", "saving", "success", "phone_invalid", "error",
            "back", "menu_send_message", "menu_check_status",
            "menu_change_language", "menu_website", "menu_news",
            "msg_instruction", "msg_received", "msg_finished",
            "msg_cancelled", "btn_finished", "btn_cancel", "status_empty",
            "status_header", "website_link", "no_news"},
     en |-> {"greeting", "language_selected", "ask_phone", "phone_received",
            "ask_location", "saving", "success", "phone_invalid", "error",
            "back", "menu_send_message", "menu_check_status",
            "menu_change_language", "menu_website", "menu_news",
            "msg_instruction", "msg_received", "msg_finished",
            "msg_cancelled", "btn_finished", "btn_cancel", "status_empty",
            "status_header", "website_link", "no_news"}]

\* a lookup in a MESSAGES whose English table has no 'no_news'
has_key_EnIncomplete(l, k) ==
    /\ l \in DOMAIN MESSAGES
    /\ k \in MESSAGES[l]
    /\ ~(l = "en" /\ k = "no_news")

\* MESSAGES[l][k] does not raise KeyError
has_key(l, k) == l \in DOMAIN MESSAGES /\ k \in MESSAGES[l]

\* the texts of MESSAGES that the handlers compare a message with
ButtonText(l, k) ==
    CASE l = "uz" /\ k = "back" ->
             <<11013, 65039, 32, 79, 114, 113, 97, 103, 97>>
      [] l = "uz" /\ k = "menu_send_message" ->
             <<128221, 32, 77, 117, 114, 111, 106, 97, 97, 116, 32, 121,
               117, 98, 111, 114, 105, 115, 104>>
      [] l = "uz" /\ k = "menu_check_status" ->
             <<128202, 32, 72, 111, 108, 97, 116, 110, 105, 32, 116, 101,
               107, 115, 104, 105, 114, 105, 115, 104>>
      [] l = "uz" /\ k = "menu_change_language" ->
             <<127760, 32, 84, 105, 108, 110, 105, 32, 111, 8216, 122, 103,
               97, 114, 116, 105, 114, 105, 115, 104>>
      [] l = "uz" /\ k = "menu_website" ->
             <<127760, 32, 86, 101, 98, 45, 115, 97, 121, 116>>
      [] l = "uz" /\ k = "menu_news" ->
             <<128240, 32, 89, 97, 110, 103, 105, 108, 105, 107, 108, 97,
               114>>
      [] l = "uz" /\ k = "btn_finished" ->
             <<9989, 32, 89, 97, 107, 117, 110, 108, 97, 115, 104>>
      [] l = "uz" /\ k = "btn_cancel" ->
             <<10060, 32, 66, 101, 107, 111, 114, 32, 113, 105, 108, 105,
               115, 104>>
      [] l = "ru" /\ k = "back" ->
             <<11013, 65039, 32, 1053, 1072, 1079, 1072, 1076>>
      [] l = "ru" /\ k = "menu_send_message" ->
             <<128221, 32, 1054, 1090, 1087, 1088, 1072, 1074, 1080, 1090,
               1100, 32, 1086, 1073, 1088, 1072, 1097, 1077, 1085, 1080,
               1077>>
      [] l = "ru" /\ k = "menu_check_status" ->
             <<128202, 32, 1055, 1088, 1086, 1074, 1077, 1088, 1080, 1090,
               1100, 32, 1089, 1090, 1072, 1090, 1091, 1089>>
      [] l = "ru" /\ k = "menu_change_language" ->
             <<127760, 32, 1048, 1079, 1084, 1077, 1085, 1080, 1090, 1100,
               32, 1103, 1079, 1099, 1082>>
      [] l = "ru" /\ k = "menu_website" ->
             <<127760, 32, 1042, 1077, 1073, 45, 1089, 1072, 1081, 1090>>
      [] l = "ru" /\ k = "menu_news" ->
             <<128240, 32, 1053, 1086, 1074, 1086, 1089, 1090, 1080>>
      [] l = "ru" /\ k = "btn_finished" ->
             <<9989, 32, 1047, 1072, 1074, 1077, 1088, 1096, 1080, 1090,
               1100>>
      [] l = "ru" /\ k = "btn_cancel" ->
             <<10060, 32, 1054, 1090, 1084, 1077, 1085, 1080, 1090, 1100>>
      [] l = "en" /\ k = "back" ->
             <<11013, 65039, 32, 66, 97, 99, 107>>
      [] l = "en" /\ k = "menu_send_message" ->
             <<128221, 32, 83, 101, 110, 100, 32, 77, 101, 115, 115, 97,
               103, 101>>
      [] l = "en" /\ k = "menu_check_status" ->
             <<128202, 32, 67, 104, 101, 99, 107, 32, 83, 116, 97, 116,
               117, 115>>
      [] l = "en" /\ k = "menu_change_language" ->
             <<127760, 32, 67, 104, 97, 110, 103, 101, 32, 76, 97, 110,
               103, 117, 97, 103, 101>>
      [] l = "en" /\ k = "menu_website" ->
             <<127760, 32, 87, 101, 98, 115, 105, 116, 101>>
      [] l = "en" /\ k = "menu_news" ->
             <<128240, 32, 78, 101, 119, 115>>
      [] l = "en" /\ k = "btn_finished" ->
             <<9989, 32, 70, 105, 110, 105, 115, 104, 101, 100>>
      [] l = "en" /\ k = "btn_cancel" ->
             <<10060, 32, 67, 97, 110, 99, 101, 108>>

\* process_language_selection, lines 472-482, in the order of the dict
language_map ==
    <<[key |-> <<127482, 127487, 32, 111, 699, 122, 98, 101, 107>>,
       lang |-> "uz"],
      [key |-> <<111, 39, 122, 98, 101, 107>>,
       lang |-> "uz"],
      [key |-> <<117, 122, 98, 101, 107>>,
       lang |-> "uz"],
      [key |-> <<127479, 127482, 32, 1088, 1091, 1089, 1089, 1082, 1080,
                 1081>>,
       lang |-> "ru"],
      [key |-> <<1088, 1091, 1089, 1089, 1082, 1080, 1081>>,
       lang |-> "ru"],
      [key |-> <<114, 117, 115, 115, 105, 97, 110>>,
       lang |-> "ru"],
      [key |-> <<127468, 127463, 32, 101, 110, 103, 108, 105, 115, 104>>,
       lang |-> "en"],
      [key |-> <<101, 110, 103, 108, 105, 115, 104>>,
       lang |-> "en"],
      [key |-> <<105, 110, 103, 108, 105, 122>>,
       lang |-> "en"]>>

\* '/start'
TextStart == <<47, 115, 116, 97, 114, 116>>

\* 'Ali'
TextAli == <<65, 108, 105>>

\* other texts the chat types: 'Al', ' Al ', 'Uy 12', 'OLMAZOR'
TypedTexts ==
    {<<65, 108>>,
     <<32, 65, 108, 32>>,
     <<85, 121, 32, 49, 50>>,
     <<79, 76, 77, 65, 90, 79, 82>>}

\* phone numbers of the contacts the chat shares: '+998901234567',
\* '998901234567', '+998 (90) 123-45-67', '+998801234567', '+99890123456',
\* and '+9989' followed by the Arabic-Indic digits U+0660..U+0667
Phones ==
    {<<43, 57, 57, 56, 57, 48, 49, 50, 51, 52, 53, 54, 55>>,
     <<57, 57, 56, 57, 48, 49, 50, 51, 52, 53, 54, 55>>,
     <<43, 57, 57, 56, 32, 40, 57, 48, 41, 32, 49, 50, 51, 45, 52, 53, 45, 54,
       55>>,
     <<43, 57, 57, 56, 56, 48, 49, 50, 51, 52, 53, 54, 55>>,
     <<43, 57, 57, 56, 57, 48, 49, 50, 51, 52, 53, 54>>,
     <<43, 57, 57, 56, 57, 1632, 1633, 1634, 1635, 1636, 1637, 1638, 1639>>}

\* Neighborhood rows (core_support.models.Neighborhood): an active one,
\* 'Olmazor' with a Russian name, and an inactive one, 'Eski'
Neighborhood ==
    [n \in {1, 2} |->
        [id |-> n,
         name_uz |-> IF n = 1 THEN <<79, 108, 109, 97, 122, 111, 114>>
                     ELSE <<69, 115, 107, 105>>,
         name_ru |-> IF n = 1
                     THEN <<1054, 1083, 1084, 1072, 1079, 1086, 1088>>
                     ELSE <<>>,
         is_active |-> n = 1]]

\* messages the chat may send: a text, a shared contact, a photo
TextMsg(t) == [kind |-> "text", text |-> t, phone |-> <<>>]
ContactMsg(p) == [kind |-> "contact", text |-> <<>>, phone |-> p]

MenuKeys ==
    {"menu_send_message", "menu_check_status", "menu_change_language",
     "menu_website", "menu_news"}

\* what the chat sends while it is asked for its language
\* (the buttons of get_language_keyboard, lines 261-262, or another text)
LanguageInputs ==
    {TextMsg(t) : t \in
        {<<127482, 127487, 32, 79, 699, 122, 98, 101, 107>>,
         <<127479, 127482, 32, 1056, 1091, 1089, 1089, 1082, 1080, 1081>>,
         <<127468, 127463, 32, 69, 110, 103, 108, 105, 115, 104>>,
         TextAli}}
    \cup {PhotoMsg}

\* what it sends during the rest of the onboarding
OnboardingInputs ==
    {TextMsg(t) : t \in {ButtonText("uz", "back"), ButtonText("ru", "back"),
                         ButtonText("en", "back"), TextAli,
                         Neighborhood[1].name_ru}
                        \cup TypedTexts
                        \cup {Neighborhood[n].name_uz : n \in DOMAIN Neighborhood}}
    \cup {ContactMsg(p) : p \in Phones}
    \cup {PhotoMsg}

\* what it sends from the main menu
MenuInputs ==
    {TextMsg(ButtonText(l, k)) : l \in DOMAIN MESSAGES, k \in MenuKeys}
    \cup {TextMsg(TextAli), PhotoMsg}

\* what it sends while writing a message
WritingInputs ==
    {TextMsg(ButtonText(l, k)) : l \in DOMAIN MESSAGES,
                                 k \in {"btn_finished", "btn_cancel"}}
    \cup {TextMsg(TextAli), PhotoMsg}

\* CommandStart()
IsStart(u) == u.kind = "text" /\ u.text = TextStart

\* s.startswith(prefix)
StartsWith(s, prefix) ==
    Len(s) >= Len(prefix) /\ SubSeq(s, 1, Len(prefix)) = prefix

\* s.replace(c, '') for every c of `chars`
RECURSIVE Remove(_, _)
Remove(s, chars) ==
    IF s = <<>> THEN <<>>
    ELSE IF Head(s) \in chars THEN Remove(Tail(s), chars)
    ELSE <<Head(s)>> \o Remove(Tail(s), chars)

\* str.isdigit(): every character is a digit of some script (ASCII, the
\* superscripts, Arabic-Indic, extended Arabic-Indic), and there is one
isdigit(s) ==
    /\ s # <<>>
    /\ \A i \in DOMAIN s :
           \/ s[i] >= 48 /\ s[i] <= 57
           \/ s[i] \in {178, 179, 185}
           \/ s[i] >= 1632 /\ s[i] <= 1641
           \/ s[i] >= 1776 /\ s[i] <= 1785

\* validate_phone_number, lines 238-254
validate_phone_number(phone) ==
    LET phone_clean == Remove(phone, {32, 45, 40, 41})
        digits == SubSeq(phone_clean, 5, Len(phone_clean))
    IN  IF ~StartsWith(phone_clean, <<43, 57, 57, 56>>) THEN FALSE
        ELSE IF ~isdigit(digits) \/ Len(digits) # 9 THEN FALSE
        ELSE IF ~StartsWith(digits, <<57>>) THEN FALSE
        ELSE TRUE

\* lines 484-492: the language of the first key of language_map that the
\* lower-cased text contains, Uzbek when there is none
RECURSIVE language_of(_, _)
language_of(text, i) ==
    IF i > Len(language_map) THEN "uz"
    ELSE IF Contains(Lower(text), language_map[i].key) THEN language_map[i].lang
    ELSE language_of(text, i + 1)

\* get_neighborhood_by_name, lines 642-665: the id of the row found, 0 for
\* None; __iexact compares without regard to case
get_neighborhood_by_name(selected_name, language) ==
    LET by_uz == {n \in DOMAIN Neighborhood :
                     /\ Neighborhood[n].is_active
                     /\ Lower(Neighborhood[n].name_uz) = Lower(selected_name)}
        by_ru == {n \in DOMAIN Neighborhood :
                     /\ Neighborhood[n].is_active
                     /\ Lower(Neighborhood[n].name_ru) = Lower(selected_name)}
    IN  IF by_uz # {} THEN CHOOSE n \in by_uz : \A o \in by_uz : n <= o
        ELSE IF language = "ru" /\ by_ru # {}
        THEN CHOOSE n \in by_ru : \A o \in by_ru : n <= o
        ELSE 0

\* data.get('language', 'uz')
LanguageOf(data) == IF data.language = "" THEN "uz" ELSE data.language

\* the keys get_main_menu_keyboard(language) looks up, lines 350-355
MainMenu(l) == {<<l, k>> : k \in MenuKeys}

\* await state.clear()
Cleared(b) == [b EXCEPT !.state = "None", !.data = NoData]

\* The handler has run to its end: `keys` are the (language, key) pairs it
\* looked up in MESSAGES on its way, `nb` the conversation it leaves.  A pair
\* that MESSAGES does not have raises KeyError out of the handler.
Handled(handler, u, keys, nb, save) ==
    /\ bot' = IF \A p \in keys : has_key(p[1], p[2])
              THEN [nb EXCEPT !.last = [handler |-> handler, update |-> u,
                                        exc |-> "", save |-> save]]
              ELSE [bot EXCEPT !.last = [handler |-> handler, update |-> u,
                                         exc |-> "KeyError", save |-> "none"]]
    /\ UNCHANGED <<contents, Session, InjectResult, AIResult, client, faults,
                   workers, started, pc, frame, hist>>
    /\ UNCHANGED <<qdrant, indexer>>
    /\ UNCHANGED <<AuditLog, audit, now>>

\* The handler raises `exc` and leaves the conversation `nb`.
Raised(handler, u, exc, nb) ==
    /\ bot' = [nb EXCEPT !.last = [handler |-> handler, update |-> u,
                                   exc |-> exc, save |-> "none"]]
    /\ UNCHANGED <<contents, Session, InjectResult, AIResult, client, faults,
                   workers, started, pc, frame, hist>>
    /\ UNCHANGED <<qdrant, indexer>>
    /\ UNCHANGED <<AuditLog, audit, now>>

\* cmd_start, lines 434-464 (universal_pre_check: the chat has an account
\* or is new; no admin writes to the bot)
cmd_start(u) ==
    /\ IsStart(u)
    /\ IF bot.account.exists
       THEN Handled("cmd_start", u, MainMenu(bot.account.language_preference),
                    Cleared(bot), "none")
       ELSE Handled("cmd_start", u, {<<"uz", "greeting">>},
                    [bot EXCEPT !.state = "choose_language"], "none")

\* process_language_selection, lines 467-534
process_language_selection(u) ==
    /\ ~IsStart(u)
    /\ bot.state = "choose_language"
    /\ IF u.kind # "text"
       THEN Raised("process_language_selection", u, "AttributeError", bot)
       ELSE LET language == language_of(u.text, 1)
                b1 == [bot EXCEPT !.data.language = language]
            IN  IF b1.data.is_changing_language
                THEN IF ~bot.account.exists
                     THEN Raised("process_language_selection", u, "DoesNotExist", b1)
                     ELSE Handled("process_language_selection", u,
                                  {<<language, "success">>} \cup MainMenu(language),
                                  Cleared([b1 EXCEPT
                                      !.account.language_preference = language]),
                                  "none")
                ELSE Handled("process_language_selection", u,
                             {<<language, "language_selected">>, <<language, "back">>},
                             [b1 EXCEPT !.state = "ask_fullname"], "none")

\* process_fullname, lines 537-569
process_fullname(u) ==
    /\ ~IsStart(u)
    /\ bot.state = "ask_fullname"
    /\ LET language == LanguageOf(bot.data)
           full_name == strip(u.text)
       IN  IF u.kind # "text"
           THEN Raised("process_fullname", u, "AttributeError", bot)
           ELSE IF full_name = ButtonText(language, "back")
           THEN Handled("process_fullname", u,
                        {<<language, "back">>, <<language, "greeting">>},
                        [bot EXCEPT !.state = "choose_language"], "none")
           ELSE IF Len(full_name) < 3
           THEN Handled("process_fullname", u,
                        {<<language, "back">>, <<"uz", "error">>}, bot, "none")
           ELSE Handled("process_fullname", u,
                        {<<language, "back">>, <<language, "ask_phone">>},
                        [bot EXCEPT !.data.full_name = full_name,
                                    !.state = "ask_phone"], "none")

\* process_phone, lines 572-619
process_phone(u) ==
    /\ ~IsStart(u)
    /\ bot.state = "ask_phone"
    /\ LET language == LanguageOf(bot.data)
           phone == IF StartsWith(u.phone, <<43>>) THEN u.phone
                    ELSE <<43>> \o u.phone
       IN  IF u.kind = "contact"
           THEN IF ~validate_phone_number(phone)
                THEN Handled("process_phone", u,
                             {<<language, "back">>, <<language, "phone_invalid">>},
                             bot, "none")
                ELSE Handled("process_phone", u,
                             {<<language, "back">>, <<language, "phone_received">>},
                             [bot EXCEPT !.data.phone_number = phone,
                                         !.state = "ask_neighborhood"], "none")
           ELSE IF u.kind = "text" /\ strip(u.text) = ButtonText(language, "back")
           THEN Handled("process_phone", u,
                        {<<language, "back">>, <<language, "language_selected">>},
                        [bot EXCEPT !.state = "ask_fullname"], "none")
           ELSE Handled("process_phone", u,
                        {<<language, "back">>, <<"uz", "phone_invalid">>},
                        bot, "none")

\* process_neighborhood, lines 622-684
process_neighborhood(u) ==
    /\ ~IsStart(u)
    /\ bot.state = "ask_neighborhood"
    /\ LET language == LanguageOf(bot.data)
           selected_name == strip(u.text)
           neighborhood == get_neighborhood_by_name(selected_name, language)
       IN  IF u.kind = "text" /\ selected_name = ButtonText(language, "back")
           THEN Handled("process_neighborhood", u,
                        {<<language, "back">>, <<language, "ask_phone">>},
                        [bot EXCEPT !.state = "ask_phone"], "none")
           ELSE IF u.kind # "text"
           THEN Raised("process_neighborhood", u, "AttributeError", bot)
           ELSE IF neighborhood = 0
           THEN Handled("process_neighborhood", u,
                        {<<language, "back">>, <<language, "error">>}, bot, "none")
           ELSE Handled("process_neighborhood", u,
                        {<<language, "back">>, <<language, "ask_location">>},
                        [bot EXCEPT
                            !.data.neighborhood_id = neighborhood,
                            !.data.neighborhood_name =
                                Neighborhood[neighborhood].name_uz,
                            !.state = "ask_full_location"], "none")

\* save_user_to_database, lines 726-803, on the conversation b: the rows are
\* written and the chat has its account (`ok`), or the transaction fails; the
\* conversation is cleared either way
save_user_to_database(u, b, keys, ok) ==
    LET language == LanguageOf(b.data)
    IN  IF ok
        THEN Handled("process_location", u,
                     keys \cup {<<language, "success">>} \cup MainMenu(language),
                     Cleared([b EXCEPT !.account =
                         [exists |-> TRUE,
                          full_name |-> b.data.full_name,
                          phone_number |-> b.data.phone_number,
                          neighborhood |-> b.data.neighborhood_name,
                          language_preference |-> language,
                          location |-> b.data.full_location]]),
                     "saved")
        ELSE Handled("process_location", u,
                     keys \cup {<<language, "error">>}, Cleared(b), "failed")

\* process_location, lines 687-723
process_location(u) ==
    /\ ~IsStart(u)
    /\ bot.state = "ask_full_location"
    /\ LET language == LanguageOf(bot.data)
           location == strip(u.text)
       IN  IF u.kind # "text"
           THEN Raised("process_location", u, "AttributeError", bot)
           ELSE IF location = ButtonText(language, "back")
           THEN Handled("process_location", u,
                        {<<language, "back">>, <<language, "phone_received">>},
                        [bot EXCEPT !.state = "ask_neighborhood"], "none")
           ELSE IF Len(location) < 5
           THEN Handled("process_location", u,
                        {<<language, "back">>, <<"uz", "error">>}, bot, "none")
           ELSE \E ok \in BOOLEAN :
                    save_user_to_database(u,
                        [bot EXCEPT !.data.full_location = location,
                                    !.state = "saving_to_db"],
                        {<<language, "back">>, <<language, "saving">>}, ok)

\* handle_regular_message, lines 807-852, with start_message_flow (855-863),
\* check_status (965-998) and start_change_language (1001-1013)
handle_regular_message(u) ==
    /\ ~IsStart(u)
    /\ bot.state = "None"
    /\ IF ~bot.account.exists
       THEN Handled("handle_regular_message", u, {<<"uz", "greeting">>},
                    [bot EXCEPT !.state = "choose_language"], "none")
       ELSE LET language == bot.account.language_preference
                Is(k) == u.kind = "text" /\ u.text = ButtonText(language, k)
                Upto(ks) == {<<language, k>> : k \in ks}
            IN  IF Is("menu_send_message")
                THEN Handled("handle_regular_message", u,
                             Upto({"menu_send_message", "msg_instruction",
                                   "btn_finished", "btn_cancel"}),
                             [bot EXCEPT !.state = "writing",
                                         !.data.messages = <<>>,
                                         !.data.language = language], "none")
                ELSE IF Is("menu_check_status")
                THEN \E key \in {"status_empty", "status_header"} :
                         Handled("handle_regular_message", u,
                                 Upto({"menu_send_message", "menu_check_status", key}),
                                 bot, "none")
                ELSE IF Is("menu_change_language")
                THEN Handled("handle_regular_message", u,
                             Upto({"menu_send_message", "menu_check_status",
                                   "menu_change_language", "greeting"}),
                             [bot EXCEPT !.state = "choose_language",
                                         !.data.is_changing_language = TRUE],
                             "none")
                ELSE IF Is("menu_website")
                THEN Handled("handle_regular_message", u,
                             Upto(MenuKeys \ {"menu_news"}) \cup
                                 {<<language, "website_link">>},
                             bot, "none")
                ELSE IF Is("menu_news")
                THEN Handled("handle_regular_message", u,
                             Upto(MenuKeys) \cup {<<language, "no_news">>},
                             bot, "none")
                ELSE Handled("handle_regular_message", u, Upto(MenuKeys),
                             bot, "none")

\* process_message_writing, lines 866-886, with finish_message_flow (889-950;
\* `outcome` is how precheck and process_message end, see
\* Call_finish_message_flow) and cancel_message_flow (953-962)
process_message_writing(u) ==
    /\ ~IsStart(u)
    /\ bot.state = "writing"
    /\ LET language == LanguageOf(bot.data)
           messages == bot.data.messages
           Upto(ks) == {<<language, k>> : k \in ks}
       IN  IF u.kind = "text" /\ u.text = ButtonText(language, "btn_finished")
           THEN IF messages = <<>>
                THEN Handled("process_message_writing", u,
                             Upto({"btn_finished", "msg_cancelled"} \cup MenuKeys),
                             Cleared(bot), "none")
                ELSE IF \E i \in DOMAIN messages : messages[i].kind # "text"
                THEN Raised("process_message_writing", u, "TypeError", bot)
                ELSE \E outcome \in {"returned", "raised"} :
                         IF outcome = "returned"
                         THEN Handled("process_message_writing", u,
                                      Upto({"btn_finished", "msg_finished"}
                                           \cup MenuKeys),
                                      Cleared(bot), "none")
                         ELSE Raised("process_message_writing", u, "Exception", bot)
           ELSE IF u.kind = "text" /\ u.text = ButtonText(language, "btn_cancel")
           THEN Handled("process_message_writing", u,
                        Upto({"btn_finished", "btn_cancel", "msg_cancelled"}
                             \cup MenuKeys),
                        Cleared(bot), "none")
           ELSE /\ Len(messages) < MaxTyped
                /\ Handled("process_message_writing", u,
                           Upto({"btn_finished", "btn_cancel", "msg_received"}),
                           [bot EXCEPT !.data.messages = Append(@, u)], "none")

(***************************************************************************)
(* Specifications.                                                         *)
(***************************************************************************)
Next ==
    \/ \E s \in SessionIds : Close_session(s)
    \/ \E r \in Runs :
               \/ \E m \in MessageArgs : Call_process_message(r, m)
               \/ \E m \in MessageArgs \cup {""} : Call_view(r, m)
               \/ \E d \in DeptArgs, m \in MessageArgs : Call_message_router(r, d, m)
               \/ \E s \in SessionArgs, m \in MessageArgs : Call_precheck(r, s, m)
               \/ \E m \in DOMAIN Message : Call_finish_message_flow(r, m)
               \/ FL_Process(r)
               \/ PM_Screen(r)
               \/ PM_InjectionRecord(r)
               \/ PM_Language(r)
               \/ PM_Embed(r)
               \/ PM_Search(r)
               \/ PM_Fallback(r)
               \/ PM_Analyze(r)
               \/ PM_Resolve(r)
               \/ PM_Record(r)
               \/ MR_Lookup(r)
               \/ MR_Save(r)

Spec == Init /\ [][Next]_vars

SpecText == InitText /\ [][Next]_vars

SpecFaults == InitFaults /\ [][Next]_vars

\* The command run up to MaxIndexRuns times on a collection that has the
\* points of any of the departments' pairs and two stale points, with an
\* embedding service that may fail; the pipeline is not running.
InitIndex ==
    /\ contents = FixedContents
    /\ Session = [s \in SessionIds |-> NewSession]
    /\ client \in BOOLEAN
    /\ faults = TRUE
    /\ workers = 1
    /\ started = MaxRuns
    /\ InitRuns
    /\ qdrant \in
           {{p \in IndexPoints : p.dept_id \notin DOMAIN Department} \cup
            {PointStruct(pr.dept, pr.lang, Embedding) : pr \in S} :
                S \in SUBSET {pr \in {[dept |-> d, lang |-> l] :
                                        d \in DOMAIN Department, l \in {"uz", "ru"}} :
                                 DeptAttr(pr.dept, "name", pr.lang) # ""}}
    /\ indexer = NoIndexer
    /\ InitLog
    /\ bot = NoBot

NextIndex ==
    \/ Call_index_departments
    \/ IX_Pair
    \/ IX_Upsert

SpecIndex == InitIndex /\ [][NextIndex]_vars

\* Up to MaxCallers processes calling create_log, up to MaxLogs entries in
\* all, on a log that starts empty; nothing else runs.
InitAudit ==
    /\ contents = FixedContents
    /\ Session = [s \in SessionIds |-> NewSession]
    /\ client = TRUE
    /\ faults = FALSE
    /\ workers = 1
    /\ started = MaxRuns
    /\ InitCommon

NextAudit ==
    \/ \E c \in Callers, u \in {NoUuid, "u1"} : CL_Read(c, u)
    \/ \E c \in Callers : CL_Create(c)
    \/ Tick

SpecAudit == InitAudit /\ [][NextAudit]_vars

\* One chat that the bot has not heard of, sending messages; nothing else
\* runs.
InitBot ==
    /\ contents = FixedContents
    /\ Session = [s \in SessionIds |-> NewSession]
    /\ client = TRUE
    /\ faults = FALSE
    /\ workers = 1
    /\ started = MaxRuns
    /\ InitCommon

\* setup_bot, lines 1026-1036: the handlers in the order of registration
NextBot ==
    \/ \E u \in {TextMsg(TextStart)} : cmd_start(u)
    \/ \E u \in LanguageInputs : process_language_selection(u)
    \/ \E u \in OnboardingInputs : process_fullname(u)
    \/ \E u \in OnboardingInputs : process_phone(u)
    \/ \E u \in OnboardingInputs : process_neighborhood(u)
    \/ \E u \in OnboardingInputs : process_location(u)
    \/ \E u \in WritingInputs : process_message_writing(u)
    \/ \E u \in MenuInputs : handle_regular_message(u)

SpecBot == InitBot /\ [][NextBot]_vars


(***************************************************************************)
(* Vocabulary of the properties.                                           *)
(***************************************************************************)
\* the AIResult rows an invocation created
RecordsOf(r) == {i \in DOMAIN AIResult : AIResult[i].run = r}

\* the invocation ran process_message (directly or from the view) on a
\* message that exists
RanPipeline(r) == hist[r].pm # "none" /\ hist[r].msg \in DOMAIN Message

CallsTo(r, fns) == {i \in DOMAIN hist[r].calls : hist[r].calls[i].fn \in fns}

\* no embedding, search, reasoning or dispatch
NoStageCalled(r) ==
    CallsTo(r, {"get_embedding", "search_vector_db",
                "analyze_message_with_gemini", "message_router"}) = {}

NoClassification(rec) ==
    /\ rec.message_type = JNull
    /\ rec.routing_confidence = JNull
    /\ rec.suggested_department_name = JNull
    /\ rec.suggested_department_id = NoDept
    /\ rec.explanation = JNull

\* c is the letter p of a phrase, in either case
SameLetter(c, p) == c = p \/ (p >= 97 /\ p <= 122 /\ c = p - 32)

\* the text contains one of the flagged phrases in any letter case
ContainsFlaggedPhrase(text) ==
    \E k \in DOMAIN suspicious_patterns :
        LET phrase == suspicious_patterns[k]
        IN  \E i \in 0..(Len(text) - Len(phrase)) :
                \A j \in 1..Len(phrase) : SameLetter(text[i + j], phrase[j])

\* the text has no Latin letter and no character of U+0400-U+04FF
HasNoScript(text) ==
    \A i \in DOMAIN text :
        /\ ~(text[i] >= 65 /\ text[i] <= 90)
        /\ ~(text[i] >= 97 /\ text[i] <= 122)
        /\ ~(text[i] >= 1024 /\ text[i] <= 1279)

(***************************************************************************)
(* C1-C10.                                                                 *)
(***************************************************************************)
\* C1: first-assignment-wins.  No step changes the assigned department of a
\* session that already has one.
C1_FirstAssignmentWins ==
    [][\A s \in SessionIds :
          Session[s].assigned_department # NoDept =>
              Session'[s].assigned_department = Session[s].assigned_department]_vars

\* C2: the update of assigned_department is one atomic conditional update.
\* A routing attempt that read the session while it had no department does
\* not write its own department over one that another attempt has assigned
\* in the meantime.
C2_AtomicConditionalUpdate ==
    [][\A r \in Runs :
          ( /\ pc[r] = "mr_save"
            /\ pc'[r] = "done"
            /\ frame[r].session.assigned_department = NoDept
            /\ Session[frame[r].session.session_uuid].assigned_department # NoDept )
          => Session'[frame[r].session.session_uuid].assigned_department
                 = Session[frame[r].session.session_uuid].assigned_department]_vars

\* C3: a run of process_message on a text that contains a flagged phrase in
\* any letter case calls no embedding, search, reasoning or dispatch, and
\* ends with exactly one AIResult, with is_injection and the reason
\* "Injection detected".
C3_InjectionTerminates ==
    \A r \in Runs :
        (RanPipeline(r) /\ ContainsFlaggedPhrase(TextOf(hist[r].msg))) =>
            /\ NoStageCalled(r)
            /\ pc[r] = "done" =>
                   \E i \in DOMAIN AIResult :
                       /\ RecordsOf(r) = {i}
                       /\ AIResult[i].message = hist[r].msg
                       /\ AIResult[i].is_injection
                       /\ AIResult[i].reason = JStr("Injection detected")

\* a finished run on a text that is flagged only because case is ignored
C3_Witness ==
    \E r \in Runs :
        /\ pc[r] = "done"
        /\ RanPipeline(r)
        /\ ContainsFlaggedPhrase(TextOf(hist[r].msg))
        /\ ~injection_detector_CaseSensitive(TextOf(hist[r].msg))
        /\ \E i \in RecordsOf(r) : AIResult[i].is_injection

\* C4: a run of process_message on a text (not empty, not flagged) with no
\* Latin and no Cyrillic letter calls no embedding, search, reasoning or
\* dispatch, and ends with exactly one AIResult, whose reason contains
\* "Unsupported language" and whose classification fields are all absent.
C4_UnsupportedTerminates ==
    \A r \in Runs :
        ( /\ RanPipeline(r)
          /\ TextOf(hist[r].msg) # <<>>
          /\ ~ContainsFlaggedPhrase(TextOf(hist[r].msg))
          /\ HasNoScript(TextOf(hist[r].msg)) ) =>
            /\ NoStageCalled(r)
            /\ pc[r] = "done" =>
                   \E i \in DOMAIN AIResult :
                       /\ RecordsOf(r) = {i}
                       /\ AIResult[i].message = hist[r].msg
                       /\ ~AIResult[i].is_injection
                       /\ AIResult[i].reason = JStr("Unsupported language: None")
                       /\ NoClassification(AIResult[i])

\* a finished run on a text of digits
C4_Witness ==
    \E r \in Runs :
        /\ pc[r] = "done"
        /\ RanPipeline(r)
        /\ TextOf(hist[r].msg) # <<>>
        /\ HasNoScript(TextOf(hist[r].msg))
        /\ \E i \in RecordsOf(r) : ~AIResult[i].is_injection

\* C5: every finished run of process_message on a text that passes the
\* injection screen and is detected as uz or ru has created exactly one
\* AIResult, whatever the services did.
C5_AlwaysRecords ==
    \A r \in Runs :
        ( /\ pc[r] = "done"
          /\ RanPipeline(r)
          /\ TextOf(hist[r].msg) # <<>>
          /\ ~injection_detector(TextOf(hist[r].msg))
          /\ detect_language(TextOf(hist[r].msg)) \in {"uz", "ru"} ) =>
            Cardinality(RecordsOf(r)) = 1

C7_NoExceptionEscapes == \A r \in Runs : hist[r].pm # "raised"

\* C8: a response of the view with status "success" carries a suggested
\* department and a confidence that are not null, and a run that made no
\* such decision is not reported as a success.
C8_SuccessCarriesDecision ==
    \A r \in Runs :
        (hist[r].entry = "view" /\ pc[r] = "done") =>
            /\ hist[r].response.status = "success" =>
                   /\ hist[r].response.suggested_department # JNull
                   /\ hist[r].response.confidence # JNull
            /\ (\A i \in RecordsOf(r) :
                    \/ AIResult[i].suggested_department_name = JNull
                    \/ AIResult[i].routing_confidence = JNull)
                   => hist[r].response.status # "success"

\* C9: precheck returns True after exactly one call of message_router, with
\* the assigned department of the session and the given message, when the
\* session exists and has a department; else it returns False and calls
\* nothing.  It never runs a classification stage.
C9_PrecheckContract ==
    \A r \in Runs :
        (hist[r].entry = "precheck" /\ pc[r] = "done") =>
            /\ IF hist[r].before # NoDept
               THEN /\ hist[r].top = "returned"
                    /\ hist[r].ret = "True"
                    /\ \E i \in DOMAIN hist[r].calls :
                           /\ CallsTo(r, {"message_router"}) = {i}
                           /\ hist[r].calls[i] = CalledRouter(hist[r].before, hist[r].msg)
               ELSE /\ hist[r].top = "returned"
                    /\ hist[r].ret = "False"
                    /\ hist[r].calls = <<>>
            /\ RecordsOf(r) = {}
            /\ \A i \in DOMAIN InjectResult : InjectResult[i].run # r
            /\ CallsTo(r, {"get_embedding", "search_vector_db",
                           "analyze_message_with_gemini"}) = {}

\* C10: when the reasoner names a department row by its name, with no id,
\* for a message of a session without department, process_message returns
\* a record carrying that name and the session is assigned to that
\* department (so that a precheck that follows finds it).
C10_NamedDepartmentIsAssigned ==
    \A r \in Runs :
        \A d \in DOMAIN Department :
            ( /\ pc[r] = "done"
              /\ hist[r].entry = "process_message"
              /\ hist[r].before = NoDept
              /\ hist[r].analysis.kind = "dict"
              /\ hist[r].analysis.f["suggested_department_id"] = JAbsent
              /\ hist[r].analysis.f["suggested_department_name"]
                     = JStr(Department[d].name_uz) ) =>
                /\ hist[r].pm = "returned"
                /\ hist[r].pm_ret # 0
                /\ AIResult[hist[r].pm_ret].suggested_department_name
                       = JStr(Department[d].name_uz)
                /\ Session[Message[hist[r].msg]].assigned_department = d

(***************************************************************************)
(* C11-C20.                                                                *)
(***************************************************************************)
\* the invocation called message_router with a message or a department that
\* does not exist
RouterArgsBad(h) ==
    \E i \in DOMAIN h.calls :
        /\ h.calls[i].fn = "message_router"
        /\ \/ h.calls[i].msg \notin DOMAIN Message
           \/ h.calls[i].dept \notin DOMAIN Department

\* the delivery attempts of an invocation to chat id c
SendsTo(r, c) ==
    {i \in DOMAIN hist[r].calls :
        hist[r].calls[i].fn = "send_telegram_message" /\ hist[r].calls[i].dept = c}

\* the chat ids of the operators of department d
ChatIdsOf(d) == {telegram_chat_ids(d)[i] : i \in DOMAIN telegram_chat_ids(d)}

\* message_router has ended, one way or the other, after both lookups
\* succeeded
RouterEnded(r) ==
    /\ hist[r].mr \in {"returned", "raised"}
    /\ ~RouterArgsBad(hist[r])

\* C11: in finish_message_flow, process_message is invoked if and only if
\* precheck reported "not handled" (returned False), and message_router is
\* called at most once for the submitted message.
C11_PipelineIffNotHandled ==
    \A r \in Runs :
        hist[r].entry = "flow" =>
            /\ hist[r].pm # "none" => hist[r].pre = "False"
            /\ (hist[r].pre = "False" /\ pc[r] = "done") => hist[r].pm # "none"
            /\ Cardinality(CallsTo(r, {"message_router"})) <= 1

\* a flow whose precheck reported False ran the pipeline and dispatched once,
\* and a later flow on the same session, now assigned, was handled by
\* precheck's call of message_router and ran no pipeline
C11_Witness ==
    \E r1, r2 \in Runs :
        /\ hist[r1].entry = "flow" /\ pc[r1] = "done"
        /\ hist[r1].pre = "False" /\ hist[r1].pm # "none"
        /\ Cardinality(CallsTo(r1, {"message_router"})) = 1
        /\ hist[r2].entry = "flow" /\ pc[r2] = "done"
        /\ hist[r2].pre # "False" /\ hist[r2].pm = "none"
        /\ Cardinality(CallsTo(r2, {"message_router"})) = 1

\* the department message_router was called with
RouterDept(r) ==
    hist[r].calls[CHOOSE i \in CallsTo(r, {"message_router"}) : TRUE].dept

\* C12: message_router is all-or-nothing.  An invocation that ended in an
\* error has not committed the assignment (session.save) without having
\* attempted the fan-out.
C12_AllOrNothing ==
    \A r \in Runs :
        hist[r].mr = "raised" =>
            \/ CallsTo(r, {"session.save"}) = {}
            \/ CallsTo(r, {"send_telegram_message"}) # {}

\* C13: a call of message_router with a message or a department that does
\* not exist changes no session, saves nothing, attempts no delivery and
\* returns without an error.
C13_BadLookupAborts ==
    [][\A r \in Runs :
          RouterArgsBad(hist'[r]) =>
              /\ hist'[r] # hist[r] => Session' = Session
              /\ pc'[r] # "mr_save"
              /\ hist'[r].mr # "raised"
              /\ \A i \in DOMAIN hist'[r].calls :
                     hist'[r].calls[i].fn \notin {"session.save",
                                                 "send_telegram_message"}]_vars

\* message_router has returned from a call with a department that does not
\* exist and from a call with a message that does not exist, and no session
\* has a department
C13_Witness ==
    /\ \E r \in Runs :
           /\ pc[r] = "done" /\ hist[r].entry = "message_router"
           /\ hist[r].mr = "returned"
           /\ hist[r].msg \in DOMAIN Message /\ hist[r].dept \notin DOMAIN Department
    /\ \E r \in Runs :
           /\ pc[r] = "done" /\ hist[r].entry = "message_router"
           /\ hist[r].mr = "returned"
           /\ hist[r].msg \notin DOMAIN Message /\ hist[r].dept \in DOMAIN Department
    /\ \A s \in SessionIds : Session[s].assigned_department = NoDept

\* C14: an invocation of message_router that got past its lookups attempts
\* exactly one delivery to every chat id of the department's operators.
C14_EveryTargetOnce ==
    \A r \in Runs :
        RouterEnded(r) =>
            \A c \in ChatIdsOf(RouterDept(r)) : Cardinality(SendsTo(r, c)) = 1

\* C15: an invocation of message_router on a session that already had a
\* department still attempts a delivery to the operators of the department
\* named in the call.
C15_ReinvocationStillNotifies ==
    \A r \in Runs :
        (RouterEnded(r) /\ hist[r].before # NoDept) =>
            \E c \in ChatIdsOf(RouterDept(r)) : SendsTo(r, c) # {}

\* the department id the reasoner suggested to the run
SuggestedId(r) == dict_get(hist[r].analysis, "suggested_department_id")

\* a department row that is active and not marked deleted
Live(d) ==
    /\ d \in DOMAIN Department
    /\ Department[d].is_active
    /\ ~Department[d].is_deleted

C17_OnlyLiveDepartments ==
    /\ \A i \in DOMAIN AIResult :
           AIResult[i].suggested_department_id # NoDept =>
               Live(AIResult[i].suggested_department_id)
    /\ \A r \in Runs :
           hist[r].pm # "none" =>
               \A i \in CallsTo(r, {"message_router"}) : Live(hist[r].calls[i].dept)

\* C18: when the suggested id is not the id of a department, the AIResult
\* of the run still carries the suggested name and the suggested id as the
\* reasoner returned them.
C18_SuggestionRecordedVerbatim ==
    \A r \in Runs :
        (/\ hist[r].pm = "returned" /\ hist[r].pm_ret # 0
         /\ SuggestedId(r).t = "num"
         /\ SuggestedId(r).n \notin DOMAIN Department) =>
            /\ AIResult[hist[r].pm_ret].suggested_department_name =
                   dict_get(hist[r].analysis, "suggested_department_name")
            /\ AIResult[hist[r].pm_ret].suggested_department_id = SuggestedId(r).n

\* C19: every AIResult has the score of its first candidate as
\* vector_similarity_score, and 0.0 when it has no candidates.
C19_ScoreMatchesCandidates ==
    \A i \in DOMAIN AIResult :
        AIResult[i].vector_similarity_score =
            IF AIResult[i].vector_top_candidates.list # <<>>
            THEN JNum(AIResult[i].vector_top_candidates.list[1].score)
            ELSE JNum(0)

\* C20: an AIResult with is_injection=true carries no classification, and
\* the text of its message contains a flagged phrase.
C20_InjectionRecordsAreBare ==
    \A i \in DOMAIN AIResult :
        AIResult[i].is_injection =>
            /\ NoClassification(AIResult[i])
            /\ ContainsFlaggedPhrase(TextOf(AIResult[i].message))

\* a flagged text of the corpus got its record
C20_Witness ==
    \E i \in DOMAIN AIResult :
        /\ AIResult[i].is_injection
        /\ AIResult[i].message = "m1"
        /\ AIResult[i].reason = JStr("Injection detected")

(***************************************************************************)
(* C21-C30.                                                                *)
(***************************************************************************)
\* the number of rate-limit errors the embedding service answered with
\* before anything else
RateLimited(script) ==
    Cardinality({i \in DOMAIN script : \A j \in 1..i : script[j] = "429"})

\* the call of get_embedding ended on a path without an embedding: no
\* client, retries exhausted, an empty response or another error
Unrecoverable(e) ==
    \/ ~client
    \/ RateLimited(e.script) = Len(e.script)
    \/ e.script[RateLimited(e.script) + 1] # "ok"

\* the last call the invocation made
LastCall(r) ==
    IF hist[r].calls = <<>> THEN "" ELSE hist[r].calls[Len(hist[r].calls)].fn

\* a letter of the Latin script: A-Z, a-z, and the letters of Latin-1
\* Supplement and Latin Extended-A/B
IsLatinLetter(c) ==
    \/ c >= 65 /\ c <= 90
    \/ c >= 97 /\ c <= 122
    \/ c >= 192 /\ c <= 591 /\ c \notin {215, 247}

\* what the language of a text should be, by its scripts
LanguageByScript(text) ==
    IF \E i \in DOMAIN text : text[i] >= 1024 /\ text[i] <= 1279 THEN "ru"
    ELSE IF \E i \in DOMAIN text : IsLatinLetter(text[i]) THEN "uz"
    ELSE "None"

\* the InjectResult rows an invocation created
VerdictsOf(r) == {i \in DOMAIN InjectResult : InjectResult[i].run = r}

\* stage b may come right after stage a in a run of process_message
MayFollow(a, b) ==
    CASE a = "injection_detector" -> b = "InjectResult.create"
      [] a = "InjectResult.create" -> b \in {"detect_language", "AIResult.create"}
      [] a = "detect_language" -> b \in {"get_embedding", "AIResult.create"}
      [] a = "get_embedding" -> b = "search_vector_db"
      [] a = "search_vector_db" -> b \in {"search_vector_db",
                                         "analyze_message_with_gemini"}
      [] a = "analyze_message_with_gemini" ->
             b \in {"Department.objects.get", "AIResult.create"}
      [] a = "Department.objects.get" -> b = "AIResult.create"
      [] a = "AIResult.create" -> b = "message_router"
      [] a = "message_router" -> b = "session.save"
      [] a = "session.save" -> b = "send_telegram_message"
      [] a = "send_telegram_message" -> b = "send_telegram_message"
      [] OTHER -> FALSE

\* C21: the routing_confidence of every AIResult is absent or a number of
\* [0, 1] (0..100 in hundredths).
C21_ConfidenceInUnitInterval ==
    \A i \in DOMAIN AIResult :
        \/ AIResult[i].routing_confidence = JNull
        \/ /\ AIResult[i].routing_confidence.t = "num"
           /\ AIResult[i].routing_confidence.n >= 0
           /\ AIResult[i].routing_confidence.n <= 100

\* C22: get_embedding calls the service at most 5 times, once more after
\* each rate-limit error and after nothing else, sleeps 20 s times the
\* number of the failed attempt after each of them (20 + 40 + ...), and
\* returns the embedding of the first answer that has one, else zeros.
C22_RetryOnlyOnRateLimit ==
    \A r \in Runs :
        (hist[r].embed.called /\ client) =>
            LET e == hist[r].embed
                k == RateLimited(e.script)
            IN  /\ e.calls <= 5
                /\ e.calls = IF k < 5 THEN k + 1 ELSE 5
                /\ e.waited = 10 * k * (k + 1)
                /\ e.vector = IF k < 5 /\ e.script[k + 1] = "ok" THEN Embedding
                              ELSE ZeroVector

\* five rate-limited attempts ended a call with the zero vector
C22_Witness ==
    \E r \in Runs :
        /\ hist[r].embed.called /\ client
        /\ RateLimited(hist[r].embed.script) = 5
        /\ hist[r].embed.calls = 5
        /\ hist[r].embed.vector = ZeroVector

\* C23: get_embedding returns to process_message, which goes on to the
\* search, with a vector of 768 components, all zeros on every path
\* without an embedding.
C23_AlwaysAVector ==
    \A r \in Runs :
        hist[r].embed.called =>
            /\ hist[r].embed.vector.dim = 768
            /\ Unrecoverable(hist[r].embed) => hist[r].embed.vector.kind = "zero"
            /\ LastCall(r) = "get_embedding" =>
                   /\ pc[r] = "pm_search"
                   /\ hist[r].pm = "running"
                   /\ frame[r].vector = hist[r].embed.vector

\* without a client, get_embedding returned zeros and the run went on
C23_Witness ==
    \E r \in Runs :
        /\ hist[r].embed.called /\ ~client
        /\ hist[r].embed.vector = ZeroVector
        /\ pc[r] = "done" /\ RecordsOf(r) # {}

\* C24: a run searches at most twice: first with the detected language as
\* filter, and once more, without filter, with the same vector and the
\* same limit of 3, exactly when the first search returned no hit.
C24_FallbackOnlyOnZeroHits ==
    \A r \in Runs :
        LET S == hist[r].searches
        IN  /\ Len(S) <= 2
            /\ Len(S) >= 1 =>
                   /\ S[1].language = hist[r].language
                   /\ S[1].vector = hist[r].embed.vector
                   /\ S[1].limit = 3
            /\ Len(S) = 2 =>
                   /\ S[1].hits = 0
                   /\ S[2].language = "None"
                   /\ S[2].vector = S[1].vector
                   /\ S[2].limit = 3
            /\ (Len(S) = 1 /\ S[1].hits = 0) => pc[r] = "pm_fallback"

\* a filtered search that worked and found nothing was followed by the
\* unfiltered one, which found candidates
C24_Witness ==
    \E r \in Runs :
        /\ pc[r] = "done"
        /\ Len(hist[r].searches) = 2
        /\ ~hist[r].searches[1].failed
        /\ hist[r].searches[2].hits > 0

\* C25: a search whose index raised returns no candidates and process_message
\* goes on: it calls the reasoner, and creates its record unless a later
\* stage raises.
C25_SearchErrorsDegrade ==
    \A r \in Runs :
        /\ \A k \in DOMAIN hist[r].searches :
               hist[r].searches[k].failed => hist[r].searches[k].hits = 0
        /\ LastCall(r) = "search_vector_db" => hist[r].pm = "running"
        /\ (pc[r] = "done" /\ \E k \in DOMAIN hist[r].searches :
                                  hist[r].searches[k].failed) =>
               /\ CallsTo(r, {"analyze_message_with_gemini"}) # {}
               /\ hist[r].pm = "returned" => RecordsOf(r) # {}

\* both searches failed and the run recorded its result without candidates
C25_Witness ==
    \E r \in Runs :
        /\ pc[r] = "done"
        /\ Len(hist[r].searches) = 2
        /\ hist[r].searches[1].failed /\ hist[r].searches[2].failed
        /\ \E i \in RecordsOf(r) : AIResult[i].vector_top_candidates.list = <<>>

\* C26: when the reasoner failed or returned something that is no
\* classification object, the run creates an AIResult with an empty
\* classification.
C26_MalformedAnalysisRecorded ==
    \A r \in Runs :
        (/\ pc[r] = "done"
         /\ CallsTo(r, {"analyze_message_with_gemini"}) # {}
         /\ hist[r].analysis.kind # "dict" \/ hist[r].analysis = EmptyDict) =>
            \E i \in RecordsOf(r) : NoClassification(AIResult[i])

\* C27: detect_language returns "ru" for a text with a character of
\* U+0400-U+04FF, "uz" for a text with a Latin letter and no such
\* character, and None for a text with neither.
C27_LanguageByScript ==
    \A r \in Runs :
        hist[r].language # "" =>
            hist[r].language = LanguageByScript(TextOf(hist[r].msg))

\* C28: a run of process_message on a message with text has written, once
\* past the screen, exactly one InjectResult, for its message and with the
\* verdict of the screen, and wrote it before it did anything else.
C28_VerdictAlwaysWritten ==
    \A r \in Runs :
        (/\ RanPipeline(r)
         /\ TextOf(hist[r].msg) # <<>>
         /\ pc[r] # "pm_screen") =>
            /\ Cardinality(VerdictsOf(r)) = 1
            /\ \A i \in VerdictsOf(r) :
                   /\ InjectResult[i].message = hist[r].msg
                   /\ InjectResult[i].is_injection =
                          ContainsFlaggedPhrase(TextOf(hist[r].msg))
            /\ Len(hist[r].calls) >= 2
            /\ hist[r].calls[1].fn = "injection_detector"
            /\ hist[r].calls[2].fn = "InjectResult.create"
            /\ CallsTo(r, {"InjectResult.create"}) = {2}

\* a text that was not flagged has its InjectResult and its AIResult
C28_Witness ==
    \E r \in Runs :
        /\ pc[r] = "done" /\ RanPipeline(r)
        /\ \E i \in VerdictsOf(r) : ~InjectResult[i].is_injection
        /\ RecordsOf(r) # {}

\* C29: the calls of a run of process_message follow the order screen,
\* language, embedding, search (once or twice), reasoning, recording,
\* dispatch, and nothing follows the record of a run that ended at the
\* screen or at the language check.
C29_StageOrder ==
    \A r \in Runs :
        hist[r].pm # "none" =>
            LET c == hist[r].calls
            IN  /\ c # <<>> => c[1].fn = "injection_detector"
                /\ \A i \in 2..Len(c) : MayFollow(c[i - 1].fn, c[i].fn)
                /\ \A i \in 2..Len(c) :
                       (/\ c[i].fn = "AIResult.create"
                        /\ c[i - 1].fn \in {"InjectResult.create", "detect_language"})
                           => i = Len(c)
                /\ \A fn \in {"injection_detector", "detect_language",
                               "get_embedding", "analyze_message_with_gemini",
                               "AIResult.create", "message_router"} :
                       Cardinality(CallsTo(r, {fn})) <= 1

\* a run went through every stage, the dispatch included
C29_Witness ==
    \E r \in Runs :
        /\ pc[r] = "done" /\ hist[r].pm # "none"
        /\ CallsTo(r, {"message_router"}) # {}
        /\ CallsTo(r, {"session.save"}) # {}

\* C30: no step of an invocation changes the status of a session.
C30_RunLeavesStatusAlone ==
    [][pc' # pc => \A s \in SessionIds : Session'[s].status = Session[s].status]_vars

(***************************************************************************)
(* Claims about the edges of the pipeline: empty input, retry budget.      *)
(***************************************************************************)
\* every fragment of the contents is either not a text fragment or made of
\* white space only
NoNonBlankText(cs) ==
    \A i \in DOMAIN cs :
        \/ cs[i].content_type # "text"
        \/ \A j \in DOMAIN cs[i].text : IsSpace(cs[i].text[j])

\* the invocation was given an id without a message, or a message none of
\* whose text fragments has a character that is not white space
NothingToProcess(r) ==
    \/ hist[r].msg \notin DOMAIN Message
    \/ NoNonBlankText(contents[hist[r].msg])

\* C31: process_message on an id that names no message, or on a message
\* without any non-blank text, writes no InjectResult and no AIResult, calls
\* no stage and returns None.
C31_NothingToProcessIsNoOp ==
    \A r \in Runs :
        (hist[r].pm # "none" /\ NothingToProcess(r)) =>
            /\ VerdictsOf(r) = {}
            /\ RecordsOf(r) = {}
            /\ hist[r].calls = <<>>
            /\ pc[r] = "done"
            /\ hist[r].pm = "returned" /\ hist[r].pm_ret = 0

\* process_message returned on a message whose only text is white space
C31_Witness ==
    \E r \in Runs :
        /\ pc[r] = "done" /\ hist[r].pm = "returned"
        /\ hist[r].msg \in DOMAIN Message
        /\ \E i \in DOMAIN contents[hist[r].msg] :
               /\ contents[hist[r].msg][i].content_type = "text"
               /\ contents[hist[r].msg][i].text # <<>>
        /\ NoNonBlankText(contents[hist[r].msg])

\* C36: one call of get_embedding sleeps only between attempts: nothing
\* after the fifth rate-limited attempt, at most 20+40+60+80 seconds in all.
C36_NoWaitAfterLastAttempt ==
    \A r \in Runs :
        hist[r].embed.called => hist[r].embed.waited <= 200

\* C39: once finish_message_flow has ended on a submitted message, however
\* it ended, the conversation is no longer in MessageStates.writing.
C39_FinishLeavesWriting ==
    \A r \in Runs :
        (hist[r].entry = "flow" /\ pc[r] = "done") => hist[r].fsm = "None"

(***************************************************************************)
(* Claims about the index_departments command.                             *)
(***************************************************************************)
\* the (department, language) pairs the command can be given
AllPairs == {[dept |-> d, lang |-> l] : d \in DOMAIN Department, l \in {"uz", "ru"}}

\* the points run i of the command upserted
UpsertedBy(i) == {indexer.log[i].upserted[k] : k \in DOMAIN indexer.log[i].upserted}

\* C32: every (department, language) pair has one point id of its own, the
\* same on every run; a run upserts no point whose id the collection had
\* when it started, and a second run upserts nothing and leaves the
\* collection as it was.
C32_IndexingIsIdempotent ==
    /\ \A a, b \in AllPairs :
           point_id(a.dept, a.lang) = point_id(b.dept, b.lang) => a = b
    /\ \A i \in DOMAIN indexer.log :
           /\ \A p \in UpsertedBy(i) :
                  /\ p.id = point_id(p.dept_id, p.lang)
                  /\ p.id \notin {q.id : q \in indexer.log[i].before}
           /\ i >= 2 =>
                  /\ indexer.log[i].upserted = <<>>
                  /\ indexer.log[i].after = indexer.log[i].before
                  /\ indexer.log[i].before = indexer.log[i - 1].after

\* a first run upserted points and a second run has ended
C32_Witness ==
    /\ Len(indexer.log) = 2
    /\ indexer.log[1].upserted # <<>>
    /\ indexer.log[1].before # {}
    /\ qdrant = indexer.log[2].after

\* C37: the command upserts no point with an all-zero vector: a pair for
\* which get_embedding had no embedding is left out and reported as failed.
C37_NoZeroVectorIndexed ==
    \A i \in DOMAIN indexer.log :
        \A p \in UpsertedBy(i) : p.vector.kind # "zero"

\* C38: the command upserts points only for departments that are active and
\* not deleted.
C38_OnlyLiveDepartmentsIndexed ==
    \A i \in DOMAIN indexer.log :
        \A p \in UpsertedBy(i) :
            /\ Department[p.dept_id].is_active
            /\ ~Department[p.dept_id].is_deleted

(***************************************************************************)
(* Claims about the audit log.                                             *)
(***************************************************************************)
\* C33: on a log that create_log alone has written, verify_chain reports no
\* issue: no hash mismatch and no chain break.
C33_VerifyAcceptsOwnLog ==
    verify_chain(AuditLog) = <<>>

\* C34: whatever the interleaving of the calls of create_log, every entry's
\* previous_hash is the entry_hash of the entry with the preceding id (None
\* for the first), and no two entries have the same previous_hash.
C34_SingleLinearChain ==
    /\ \A i \in DOMAIN AuditLog :
           AuditLog[i].previous_hash =
               IF i = 1 THEN NoHash ELSE AuditLog[i - 1].entry_hash
    /\ \A i, j \in DOMAIN AuditLog :
           AuditLog[i].previous_hash = AuditLog[j].previous_hash => i = j

(***************************************************************************)
(* Claims about the Telegram bot.                                          *)
(***************************************************************************)
\* the keys test_messages_structure requires of every language
\* (src/bot/tests.py, lines 7-14)
required_keys ==
    {"greeting", "language_selected", "ask_phone", "phone_received",
     "ask_location", "saving", "success", "phone_invalid", "error", "back",
     "menu_send_message", "menu_check_status", "menu_change_language",
     "menu_website", "menu_news", "msg_instruction", "msg_received",
     "msg_finished", "msg_cancelled", "btn_finished", "btn_cancel",
     "status_empty", "status_header", "website_link", "no_news"}

\* C35: MESSAGES has, for each of uz, ru and en, every key the handlers look
\* up: the preference of an account is one of the three, and no handler the
\* conversation reaches ends with a KeyError.
C35_NoMissingMessageKey ==
    /\ \A l \in {"uz", "ru", "en"} :
           l \in DOMAIN MESSAGES /\ required_keys \subseteq MESSAGES[l]
    /\ bot.account.exists => bot.account.language_preference \in {"uz", "ru", "en"}
    /\ bot.last.exc # "KeyError"

\* a chat that prefers English pressed News in the main menu and was answered
C35_Witness ==
    /\ bot.account.exists
    /\ bot.account.language_preference = "en"
    /\ bot.last.handler = "handle_regular_message"
    /\ bot.last.update = TextMsg(ButtonText("en", "menu_news"))
    /\ bot.last.exc = ""

\* the states of the onboarding, in order
RegistrationOrder ==
    <<"choose_language", "ask_fullname", "ask_phone", "ask_neighborhood",
      "ask_full_location">>

\* the handler registered for state RegistrationOrder[k]
RegistrationHandler ==
    <<"process_language_selection", "process_fullname", "process_phone",
      "process_neighborhood", "process_location">>

\* the message is the Back button of the language of the conversation
PressedBack(u, language) ==
    u.kind = "text" /\ strip(u.text) = ButtonText(language, "back")

\* +998 9XXXXXXXX, X a digit 0-9, written with or without the "+", spaces,
\* hyphens and parentheses
IsUzMobile(phone) ==
    LET d == Remove(phone, {43, 32, 45, 40, 41})
    IN  /\ Len(d) = 12
        /\ SubSeq(d, 1, 4) = <<57, 57, 56, 57>>
        /\ \A i \in DOMAIN d : d[i] >= 48 /\ d[i] <= 57

\* the message is what state RegistrationOrder[k] asks for
ValidInput(k, u) ==
    CASE k = 1 -> u.kind = "text"
      [] k = 2 -> u.kind = "text" /\ Len(strip(u.text)) >= 3
      [] k = 3 -> u.kind = "contact" /\ IsUzMobile(u.phone)
      [] k = 4 -> /\ u.kind = "text"
                  /\ \E n \in DOMAIN Neighborhood :
                         /\ Neighborhood[n].is_active
                         /\ Lower(strip(u.text)) \in
                                {Lower(Neighborhood[n].name_uz),
                                 Lower(Neighborhood[n].name_ru)}
      [] OTHER -> u.kind = "text" /\ Len(strip(u.text)) >= 5

\* C40: save_user_to_database runs only from ask_full_location on a valid
\* location; a state of the onboarding is entered only from the state before
\* it on valid input or from the state after it on Back; the handler of a
\* state goes to the state before on Back and stays on input that is neither
\* Back nor valid; and an account that was saved has its language, full
\* name, phone number, neighborhood and location.
C40_OnboardingOrder ==
    [][LET u == bot'.last.update
           language == LanguageOf(bot.data)
       IN  bot' # bot =>
           /\ bot'.last.save # "none" =>
                  bot.state = RegistrationOrder[5] /\ ValidInput(5, u)
           /\ \A k \in 2..5 :
                  (bot'.state = RegistrationOrder[k] /\ bot.state # RegistrationOrder[k]) =>
                      \/ /\ bot.state = RegistrationOrder[k - 1]
                         /\ ValidInput(k - 1, u)
                      \/ /\ k < 5
                         /\ bot.state = RegistrationOrder[k + 1]
                         /\ PressedBack(u, language)
           /\ \A k \in 2..5 :
                  (/\ bot.state = RegistrationOrder[k]
                   /\ bot'.last.handler = RegistrationHandler[k]) =>
                      /\ PressedBack(u, language) =>
                             bot'.state = RegistrationOrder[k - 1]
                      /\ (~PressedBack(u, language) /\ ~ValidInput(k, u)) =>
                             bot'.state = bot.state
           /\ bot'.account.exists =>
                  /\ bot'.account.language_preference \in {"uz", "ru", "en"}
                  /\ bot'.account.full_name # <<>>
                  /\ bot'.account.phone_number # <<>>
                  /\ bot'.account.neighborhood # <<>>
                  /\ bot'.account.location # <<>>]_vars

=============================================================================
